---- MODULE Spec2Model ----
(***************************************************************************)
(* Audit pipeline of dshield: the logging proxy (LoggingProxyServer), the  *)
(* runtime's request/response audit layer (DShieldRuntime) and the log     *)
(* store they append to (InMemoryLogStore or FirestoreLogStore).           *)
(*                                                                         *)
(* The promise chain `sequenceLock` is a FIFO queue of critical-section    *)
(* tasks per component instance.  Over the in-memory store a task runs in  *)
(* one step: its awaits resolve in the microtask queue, so no other        *)
(* callback runs in between.  Over the durable store the awaits are I/O:   *)
(* the task runs in two steps, and either store call may reject.           *)
(***************************************************************************)
EXTENDS Integers, Sequences, FiniteSets, TLC

\* ---------------------------------------------------------------- bounds
MaxReqs == 3          \* outbound requests that reach a proxy
MaxInv == 2           \* inbound requests handled by the runtime
MaxTime == 1          \* highest reading of the wall clock
MaxStoreFailures == 1 \* store calls that reject
MaxPre == 1           \* entries already in the chain when the run starts
MaxUuids == 2         \* invocation ids a host asks the proxy to generate
MaxChildReqs == 1     \* outbound requests sent by the runtime's children
MaxEntries == 3       \* entries handed to verifyLogIntegrity
MaxSequence == 4      \* highest sequence among the entries handed to it
MaxTimeout == 2       \* highest timeout configured for a function, in ms
MaxManifests == 2     \* manifest ids offered to the registry
MaxContents == 2      \* distinct file contents (builds of one file)
MaxFiles == 2         \* files listed in a manifest handed to the verifier
MaxConns == 3         \* client connections a proxy listener accepts

Reqs == 1..MaxReqs
Invs == 1..MaxInv

\* ------------------------------------------------------------ components
Proxies == {"P1", "P2"}
Components == Proxies \cup {"RT"}
NoFid == "none"
RuntimeProxyFunctionId == "dshield-runtime"
SERVER_FUNCTION_ID == "dshield-server"
TestFunctionId == "test-function"
FunctionIds == {RuntimeProxyFunctionId, SERVER_FUNCTION_ID, TestFunctionId}
Backends == {"memory", "durable"}
CustomIds == {101}
EmptyId == 0
Undefined == 0 - 1
Kinds == {"http", "connect"}

VARIABLES
  backend,              \* the LogStore in use: InMemoryLogStore | FirestoreLogStore
  entries,              \* functionId -> stored entries (list / documents by sequence)
  sequences,            \* functionId -> InMemoryLogStore.sequences / sequenceCache
  config,               \* component -> config.functionId (NoFid: not built)
  currentInvocationId,  \* LoggingProxyServer.currentInvocationId
  queue,                \* component -> tasks chained on sequenceLock
  phase,                \* component -> "idle" | "read" (head task position)
  lastRead,             \* component -> value awaited from getLatestSequence
  rejected,             \* component -> sequenceLock is a rejected promise
  now,                  \* latest reading of the wall clock (new Date(), Date.now())
  uuid,                 \* number of UUIDs generated so far
  failures,             \* store calls that have rejected
  rpc,                  \* outbound request -> position in handleRequest
  rkind,                \* outbound request -> "http" | "connect"
  rvia,                 \* outbound request -> proxy that received it
  rowner,               \* outbound request -> invocation whose child sent it
  rstatus,              \* outbound request -> status the client received
  rseq,                 \* outbound request -> sequence its task computed
  forwarded,            \* outbound requests whose upstream was opened
  upstreamFailed,       \* outbound requests whose upstream errored
  failure,              \* history: outbound request -> store call that rejected
  ipc,                  \* invocation -> position in DShieldRuntime.handleRequest
  invId,                \* invocation -> invocationId (randomUUID)
  startTime,            \* invocation -> Date.now() at arrival
  requestSeq,           \* invocation -> value returned by logRequest
  istatus,              \* invocation -> status sent to the caller
  lastCallId,           \* history: id set by the latest setInvocationId/newInvocation
  initLast,             \* history: latest sequence when the run started
  vEntries,             \* verifyLogIntegrity: the entries argument
  vKey,                 \* verifyLogIntegrity: the publicKeyPem argument
  vResult,              \* verifyLogIntegrity: the returned { valid, errors }
  sbConfig,             \* FunctionSandbox.functionConfig: runtime, timeout
  sbpc,                 \* position of FunctionSandbox.execute
  sbNow,                \* milliseconds since execute started
  sbChild,              \* the child: none | running | closed | killed | failed
  sbTimer,              \* the timeout timer is armed
  sbPromise,            \* the promise of runInSubprocess
  sbClose,              \* history: the close event the sandbox handled
  sbResult,             \* what execute gave its caller
  manifests,            \* ManifestRegistry: manifestId -> signed manifest
  latestByName,         \* ManifestRegistry: name -> manifestId
  byBundleHash,         \* ManifestRegistry: bundleHash -> manifestId
  chainLinks,           \* ManifestRegistry: manifestId -> previous manifestId
  regReply,             \* the last reply of the manifest API
  mvpc,                 \* verifyClientManifest: idle | given | verified
  mvInput,              \* its arguments
  mvResult,             \* its ManifestVerificationResult
  isoCaps,              \* the last IsolationCapabilities reported
  isoProfile,           \* the seccomp profile installed on the sandbox
  isoVerdict,           \* what the filter did with the last system call
  pxListening,          \* the proxy's listener accepts connections
  pxConn,               \* connection -> none | active | idle | tunnel | closed
  pxLast,               \* connection -> what it was when it closed
  pxClosedBy,           \* connection -> none | peer | peer-late | server
  pxStop,               \* stop(): idle | pending | resolved | rejected
  initialized,          \* loader shim: initialize() has run
  proxy_host,           \* loader shim: DSHIELD_PROXY_HOST ("" when unset)
  proxy_port,           \* loader shim: atoi(DSHIELD_PROXY_PORT), 0 when unset
  shCall,               \* loader shim: the last intercepted call
  shOutcome,            \* loader shim: what that call returned
  dpPc,                 \* runtime handleRequest: position in the route dispatch
  dpReq,                \* the request being dispatched
  dpReply,              \* who answered it, and with what status
  execInvocationId      \* invocation -> invocationId taken by sandbox.execute

storeVars == <<backend, entries, sequences>>
lockVars == <<queue, phase, lastRead, rejected>>
reqVars == <<rpc, rkind, rvia, rowner, rstatus, rseq, forwarded,
             upstreamFailed, failure>>
invVars == <<ipc, invId, startTime, requestSeq, istatus>>
verVars == <<vEntries, vKey, vResult>>
sbVars == <<sbConfig, sbpc, sbNow, sbChild, sbTimer, sbPromise, sbClose,
            sbResult>>
regVars == <<manifests, latestByName, byBundleHash, chainLinks, regReply>>
mvVars == <<mvpc, mvInput, mvResult>>
isoVars == <<isoCaps, isoProfile, isoVerdict>>
pxVars == <<pxListening, pxConn, pxLast, pxClosedBy, pxStop>>
shVars == <<initialized, proxy_host, proxy_port, shCall, shOutcome>>
dpVars == <<dpPc, dpReq, dpReply>>
exVars == <<execInvocationId>>
extVars == <<sbVars, regVars, mvVars, isoVars, pxVars, shVars, dpVars, exVars>>
vars == <<backend, entries, sequences, config, currentInvocationId, queue,
          phase, lastRead, rejected, now, uuid, failures, rpc, rkind, rvia,
          rowner, rstatus, rseq, forwarded, upstreamFailed, failure, ipc,
          invId, startTime, requestSeq, istatus, lastCallId, initLast, verVars,
          extVars>>

\* ------------------------------------------------------------- log store
\* FirestoreLogStore.getLatestSequence, the query: orderBy('sequence',
\* 'desc').limit(1), 0 when the snapshot is empty.
queryLatest(f) ==
  IF entries[f] = <<>> THEN 0 ELSE entries[f][Len(entries[f])].sequence

\* InMemoryLogStore.getLatestSequence: sequences.get(functionId) || 0
\* FirestoreLogStore.getLatestSequence: the cached value, else the query.
getLatestSequence(f) ==
  IF backend = "memory" THEN sequences[f]
  ELSE IF sequences[f] # Undefined THEN sequences[f]
  ELSE queryLatest(f)

\* FirestoreLogStore.getLatestSequence: sequenceCache.set(functionId, ...)
\* after an uncached query; the in-memory store changes nothing on a read.
sequencesAfterRead(f) ==
  IF backend = "durable" /\ sequences[f] = Undefined
  THEN [sequences EXCEPT ![f] = queryLatest(f)]
  ELSE sequences

\* InMemoryLogStore.getAll: entries.get(functionId) || []
\* FirestoreLogStore.getAll: where functionId == f, orderBy sequence asc
getAll(f) == entries[f]

\* FirestoreLogStore.append: doc(`${functionId}_${sequence}`).set(...)
\* replaces the document of that id; documents are kept in sequence order.
setDocument(docs, e) ==
  LET below == SelectSeq(docs, LAMBDA d : d.sequence < e.sequence)
      above == SelectSeq(docs, LAMBDA d : d.sequence > e.sequence)
  IN below \o <<e>> \o above

\* InMemoryLogStore.append: functionEntries.push(entry)
\* FirestoreLogStore.append: the document write
appendEntries(e) ==
  [entries EXCEPT ![e.functionId] =
     IF backend = "memory" THEN Append(@, e) ELSE setDocument(@, e)]

\* Variant: one latest-sequence counter for all functions.
appendSequencesGlobal(e) == [f \in FunctionIds |-> e.sequence]

\* Variant: append leaves the latest-sequence map alone.
appendSequencesForgotten(e) == sequences

\* InMemoryLogStore.append: sequences.set(functionId, sequence)
\* FirestoreLogStore.append: sequenceCache.set(functionId, sequence)
appendSequences(e) == [sequences EXCEPT ![e.functionId] = e.sequence]

\* ---------------------------------------------------------------- signer
\* TEESigner.sign: a deterministic signature over the serialized entry
sign(data) == [key |-> "tee", data |-> data]

\* Variant: the entry is signed before its sequence is filled in.
withSignatureEarly(e) ==
  [x \in (DOMAIN e) \cup {"signature"} |->
     IF x = "signature" THEN sign([e EXCEPT !.sequence = 0]) ELSE e[x]]

\* { ...entry, signature }
withSignature(e) == [x \in (DOMAIN e) \cup {"signature"} |->
                       IF x = "signature" THEN sign(e) ELSE e[x]]

\* Variant: the + 1 is dropped.
nextSequenceOffByOne(last) == last

\* sequence = (await getLatestSequence(fid)) + 1
nextSequence(last) == last + 1

\* TEESigner.getPublicKey: the key that matches the signer's private key.
PublicKey == "tee"

\* The public key of another TEESigner.
OtherKey == "other"

\* Variant: every signature is accepted.
verifySignatureAlways(data, signature, publicKeyPem) == TRUE

\* verifySignature(data, signature, publicKeyPem)
verifySignature(data, signature, publicKeyPem) ==
  signature.key = publicKeyPem /\ signature.data = data

\* ----------------------------------------------------------------- clock
\* new Date() / Date.now(): a reading t no earlier than the previous one.
readClock(t) == t \in now..MaxTime /\ now' = t

\* ----------------------------------------------------------- entry build
methodOf(kind) == IF kind = "http" THEN "GET" ELSE "CONNECT"
protocolOf(kind) == IF kind = "http" THEN "http" ELSE "https"
pathOf(kind, r) == IF kind = "http" THEN r ELSE 0

\* LoggingProxyServer.logRequest: invocationId: this.currentInvocationId
egressInvocationId(p, r) == currentInvocationId[p]

\* LoggingProxyServer.logRequest: the EgressLogEntry literal
egressEntry(p, r, seq) ==
  [type |-> "egress", sequence |-> seq, functionId |-> config[p],
   invocationId |-> egressInvocationId(p, r), timestamp |-> now',
   method |-> methodOf(rkind[r]), host |-> r, path |-> pathOf(rkind[r], r),
   protocol |-> protocolOf(rkind[r])]

\* DShieldRuntime.logRequest / logResponse: timestamp: new Date().toISOString()
auditTimestamp(i) == now'

\* DShieldRuntime.logRequest: the RequestLogEntry literal
requestEntry(i, seq) ==
  [type |-> "request", sequence |-> seq, functionId |-> SERVER_FUNCTION_ID,
   invocationId |-> invId[i], timestamp |-> auditTimestamp(i),
   method |-> "POST", path |-> i]

\* DShieldRuntime.logResponse: the ResponseLogEntry literal
responseEntry(i, seq) ==
  [type |-> "response", sequence |-> seq, functionId |-> SERVER_FUNCTION_ID,
   invocationId |-> invId[i], timestamp |-> auditTimestamp(i),
   requestSeq |-> requestSeq[i], status |-> istatus[i]]

buildEntry(c, task, seq) ==
  IF task.t = "egress" THEN egressEntry(c, task.id, seq)
  ELSE IF task.t = "request" THEN requestEntry(task.id, seq)
  ELSE responseEntry(task.id, seq)

\* ------------------------------------------------------------------ init
\* An entry logged by an earlier, completed request of the same proxy.
earlierEntry(f, k) ==
  withSignature([type |-> "egress", sequence |-> k, functionId |-> f,
                 invocationId |-> EmptyId, timestamp |-> 0, method |-> "GET",
                 host |-> 0 - k, path |-> 0 - k, protocol |-> "http"])

\* The promise of runInSubprocess before it settles, the close event before
\* it arrives, and the result before execute returns.
Pending == [state |-> "pending", kind |-> "none", text |-> 0]
NoClose == [code |-> 0 - 2, parses |-> FALSE, stderr |-> 0]
NoResult == [outcome |-> "none", success |-> FALSE, error |-> Pending,
             durationMs |-> 0, invocationId |-> FALSE]

\* No sandbox has been created.
SandboxIdle ==
  /\ sbConfig = [runtime |-> "node", timeout |-> 0]
  /\ sbpc = "absent"
  /\ sbNow = 0
  /\ sbChild = "none"
  /\ sbTimer = FALSE
  /\ sbPromise = Pending
  /\ sbClose = NoClose
  /\ sbResult = NoResult

\* The parts of the system a run does not build stay as constructed.
\* ------------------------------------------------- client manifests (data)
\* createHash('sha256').update(data).digest('hex'): one digest per input.
sha256(data) == <<"sha256", data>>

computeKeyFingerprint(publicKeyPem) == sha256(publicKeyPem)

\* Two signing keys, each named by the PEM of its public half.
Keys == {"pemA", "pemB"}
NoKey == ""

\* [...files].sort by path
RECURSIVE sortByPath(_)
sortByPath(files) ==
  IF files = <<>> THEN <<>>
  ELSE LET least == CHOOSE i \in DOMAIN files :
                      \A j \in DOMAIN files :
                        \/ files[i].path < files[j].path
                        \/ (files[i].path = files[j].path /\ i <= j)
           rest == [k \in 1..(Len(files) - 1) |->
                      IF k < least THEN files[k] ELSE files[k + 1]]
       IN <<files[least]>> \o sortByPath(rest)

\* sha256 over the sorted `${path}:${hash}` lines
computeBundleHash(files) ==
  LET sorted == sortByPath(files)
  IN sha256([i \in DOMAIN sorted |-> <<sorted[i].path, sorted[i].hash>>])

\* A file of the build: its path and the hash of its content.
fileEntry(path, content) == [path |-> path, hash |-> sha256(content)]

\* JSON.stringify(manifest, Object.keys(manifest).sort(), 2): the key list
\* filters every nesting level, so the file entries are written as {}.
serializeManifest(manifest) ==
  [manifestId |-> manifest.manifestId, name |-> manifest.name,
   bundleHash |-> manifest.bundleHash, files |-> Len(manifest.files)]

\* privateKey.sign(sha256(manifestJson))
signatureOf(key, manifest) ==
  [by |-> key, over |-> serializeManifest(manifest)]

signManifest(manifest, key) ==
  [manifest |-> manifest, signature |-> signatureOf(key, manifest),
   publicKey |-> key, keyFingerprint |-> computeKeyFingerprint(key)]

\* The trusted key if one is given, else the embedded one; a PEM that does
\* not parse makes the result false.
verifyManifestSignature(signedManifest, trustedPublicKey) ==
  LET publicKeyPem == IF trustedPublicKey # NoKey THEN trustedPublicKey
                      ELSE signedManifest.publicKey
  IN /\ publicKeyPem \in Keys
     /\ signedManifest.signature.by = publicKeyPem
     /\ signedManifest.signature.over
          = serializeManifest(signedManifest.manifest)

ManifestIds == 1..MaxManifests
Names == {"app"}
Builds == {<<fileEntry(1, c)>> : c \in 1..MaxContents}
BundleHashes == {computeBundleHash(files) : files \in Builds}
NoHash == <<>>
NoId == 0

\* The manifests a publisher produces for the registry.
Manifests ==
  {[manifestId |-> id, name |-> n, bundleHash |-> computeBundleHash(files),
    files |-> files] : id \in ManifestIds, n \in Names, files \in Builds}

\* What may be posted: a manifest signed by either key, with either key
\* embedded and either key's fingerprint written next to it.
SignedManifests ==
  {[manifest |-> m, signature |-> signatureOf(k, m), publicKey |-> pk,
    keyFingerprint |-> computeKeyFingerprint(fk)] :
      m \in Manifests, k \in Keys, pk \in Keys, fk \in Keys}

NoManifest ==
  [manifest |-> [manifestId |-> NoId, name |-> "", bundleHash |-> NoHash,
                 files |-> <<>>],
   signature |-> [by |-> NoKey, over |-> <<>>], publicKey |-> NoKey,
   keyFingerprint |-> computeKeyFingerprint(NoKey)]

NoReply == [op |-> "none", status |-> 0]

\* new ManifestRegistry(): four empty maps.
RegistryEmpty ==
  /\ manifests = [id \in ManifestIds |-> NoManifest]
  /\ latestByName = [n \in Names |-> NoId]
  /\ byBundleHash = [h \in BundleHashes |-> NoId]
  /\ chainLinks = [id \in ManifestIds |-> NoId]
  /\ regReply = NoReply

Paths == 1..MaxFiles
NoContent == 0
NoFileContents == [supplied |-> FALSE, content |-> [p \in Paths |-> NoContent]]
NoVerification ==
  [valid |-> FALSE, signatureValid |-> FALSE, bundleHashValid |-> FALSE,
   fileResults |-> <<>>, errors |-> <<>>, warnings |-> <<>>]

\* verifyClientManifest has not been called.
ManifestCheckIdle ==
  /\ mvpc = "idle"
  /\ mvInput = [signedManifest |-> NoManifest, fileContents |-> NoFileContents,
                trustedPublicKey |-> NoKey]
  /\ mvResult = NoVerification

NoCapabilities ==
  [platform |-> "", networkNamespace |-> FALSE, ldPreload |-> FALSE,
   seccomp |-> FALSE, isolationLevel |-> ""]
NoProfile ==
  [name |-> "none", defaultAction |-> "SCMP_ACT_ALLOW", syscalls |-> <<>>]
NoVerdict ==
  [name |-> "", arg0 |-> 0, matched |-> FALSE, action |-> "", errnoRet |-> 0]

\* No probe has run and no filter is installed.
IsolationIdle ==
  /\ isoCaps = NoCapabilities
  /\ isoProfile = NoProfile
  /\ isoVerdict = NoVerdict

Conns == 1..MaxConns

\* A proxy whose listener was never started and has no connection.
ListenerIdle ==
  /\ pxListening = FALSE
  /\ pxConn = [c \in Conns |-> "none"]
  /\ pxLast = [c \in Conns |-> "none"]
  /\ pxClosedBy = [c \in Conns |-> "none"]
  /\ pxStop = "idle"

\* A socket address as the shim reads it: sa_family, the address as
\* inet_ntop prints it, and the port after ntohs.  NullAddr is a NULL pointer.
NullFamily == 0
NullAddr == [family |-> NullFamily, ip |-> "", port |-> 0]
NoCall == [fn |-> "", addr |-> NullAddr]
NoOutcome == [ret |-> 0, errno |-> 0, libc |-> FALSE]

\* The shim is not loaded: its statics hold their initial values.
ShimIdle ==
  /\ initialized = FALSE
  /\ proxy_host = ""
  /\ proxy_port = 0
  /\ shCall = NoCall
  /\ shOutcome = NoOutcome

NoRequest == [method |-> "", path |-> <<>>, auth |-> ""]
NoAnswer == [by |-> "", status |-> 0]

\* The runtime's HTTP server has received no request.
DispatchIdle ==
  /\ dpPc = "idle"
  /\ dpReq = NoRequest
  /\ dpReply = NoAnswer

\* No invocation has run sandbox.execute.
ExecuteIdle == execInvocationId = [i \in Invs |-> EmptyId]

ExtUnused ==
  /\ SandboxIdle /\ RegistryEmpty /\ ManifestCheckIdle /\ IsolationIdle
  /\ ListenerIdle /\ ShimIdle /\ DispatchIdle /\ ExecuteIdle

\* The state after construction.  The in-memory map holds the latest
\* sequence of every function with entries; the durable store's cache is
\* empty in a fresh process.
InitCommon ==
  /\ ExtUnused
  /\ sequences = [f \in FunctionIds |->
                    IF backend = "memory" THEN Len(entries[f]) ELSE Undefined]
  /\ currentInvocationId = [p \in Proxies |-> EmptyId]
  /\ queue = [c \in Components |-> <<>>]
  /\ phase = [c \in Components |-> "idle"]
  /\ lastRead = [c \in Components |-> 0]
  /\ rejected = [c \in Components |-> FALSE]
  /\ now = 0
  /\ uuid = 0
  /\ failures = 0
  /\ rpc = [r \in Reqs |-> "new"]
  /\ rkind = [r \in Reqs |-> "http"]
  /\ rvia = [r \in Reqs |-> "P1"]
  /\ rowner = [r \in Reqs |-> 0]
  /\ rstatus = [r \in Reqs |-> 0]
  /\ rseq = [r \in Reqs |-> 0]
  /\ forwarded = {}
  /\ upstreamFailed = {}
  /\ failure = [r \in Reqs |-> "none"]
  /\ ipc = [i \in Invs |-> "idle"]
  /\ invId = [i \in Invs |-> EmptyId]
  /\ startTime = [i \in Invs |-> 0]
  /\ requestSeq = [i \in Invs |-> 0]
  /\ istatus = [i \in Invs |-> 0]
  /\ lastCallId = [p \in Proxies |-> EmptyId]
  /\ vEntries = <<>>
  /\ vKey = PublicKey
  /\ vResult = [valid |-> FALSE, errors |-> <<>>]

\* One proxy over a store, driven by a client and a host (the proxy tests).
InitProxy ==
  /\ backend \in Backends
  /\ initLast \in 0..MaxPre
  /\ entries = [f \in FunctionIds |->
                  IF f = TestFunctionId
                  THEN [k \in 1..initLast |-> earlierEntry(f, k)] ELSE <<>>]
  /\ config = [c \in Components |-> IF c = "P1" THEN TestFunctionId ELSE NoFid]
  /\ InitCommon

\* -------------------------------------------------- host calls on a proxy
\* LoggingProxyServer.setInvocationId
setInvocationId(p, id) ==
  /\ currentInvocationId' = [currentInvocationId EXCEPT ![p] = id]
  /\ lastCallId' = [lastCallId EXCEPT ![p] = id]

\* Variant: the generated id is returned but not stored.
newInvocationNotStored(p) ==
  /\ uuid' = uuid + 1
  /\ currentInvocationId' = currentInvocationId
  /\ lastCallId' = [lastCallId EXCEPT ![p] = uuid + 1]

\* LoggingProxyServer.newInvocation: this.currentInvocationId = uuidv4()
newInvocation(p) ==
  /\ uuid' = uuid + 1
  /\ currentInvocationId' = [currentInvocationId EXCEPT ![p] = uuid + 1]
  /\ lastCallId' = [lastCallId EXCEPT ![p] = uuid + 1]

\* The host supplies an id of its own between requests.
HostSetInvocationId(p, id) ==
  /\ config[p] # NoFid
  /\ currentInvocationId[p] # id
  /\ setInvocationId(p, id)
  /\ UNCHANGED <<extVars, storeVars, config, lockVars, now, uuid, failures, reqVars,
                 invVars, initLast, verVars>>

\* The host starts a new invocation between requests.
HostNewInvocation(p) ==
  /\ config[p] # NoFid
  /\ uuid < MaxUuids
  /\ newInvocation(p)
  /\ UNCHANGED <<extVars, storeVars, config, lockVars, now, failures, reqVars,
                 invVars, initLast, verVars>>

\* ------------------------------------------------------- the sequence lock
\* this.sequenceLock = this.sequenceLock.then(async () => {...})
chain(c, task) == [queue EXCEPT ![c] = Append(@, task)]

\* Variant: logRequest swallows the rejection and returns normally.
egressSettledSwallowed(outcome) == "logged"

\* What the awaiting caller sees when its task settled.
\* LoggingProxyServer.handleRequest/handleConnect: the await returns, or the
\* rejection lands in the catch block.
egressSettled(outcome) == IF outcome = "ok" THEN "logged" ELSE "logfail"

\* DShieldRuntime.handleRequest: logRequest returned / logResponse returned.
auditSettled(t, outcome) ==
  IF outcome # "ok" THEN "rejected"
  ELSE IF t = "request" THEN "route" ELSE "send"

\* Variant: the task does not assign; logRequest returns its initial 0.
returnedRequestSeqInitial(seq) == 0

\* DShieldRuntime.logRequest: requestSeq = sequence inside the task, returned
\* after the await.
returnedRequestSeq(seq) == seq

\* await this.sequenceLock: the caller of the settled task resumes.
settle(task, outcome, seq) ==
  /\ rpc' = IF task.t = "egress"
            THEN [rpc EXCEPT ![task.id] = egressSettled(outcome)] ELSE rpc
  /\ rseq' = IF task.t = "egress" /\ outcome = "ok"
             THEN [rseq EXCEPT ![task.id] = seq] ELSE rseq
  /\ failure' = IF task.t = "egress" /\ outcome # "ok"
                THEN [failure EXCEPT ![task.id] = outcome] ELSE failure
  /\ ipc' = IF task.t # "egress"
            THEN [ipc EXCEPT ![task.id] = auditSettled(task.t, outcome)]
            ELSE ipc
  /\ requestSeq' = IF task.t = "request"
                   THEN [requestSeq EXCEPT ![task.id] = returnedRequestSeq(seq)]
                   ELSE requestSeq

\* The build / sign / append part of the critical section.
commit(c, task, seq) ==
  LET signedEntry == withSignature(buildEntry(c, task, seq))
  IN /\ entries' = appendEntries(signedEntry)
     /\ sequences' = appendSequences(signedEntry)
     /\ settle(task, "ok", seq)

\* In-memory store: the head task runs to completion in one step.
TaskRun(c) ==
  /\ backend = "memory"
  /\ queue[c] # <<>> /\ ~rejected[c]
  /\ \E t \in 0..MaxTime : readClock(t)
  /\ commit(c, Head(queue[c]), nextSequence(getLatestSequence(config[c])))
  /\ queue' = [queue EXCEPT ![c] = Tail(@)]
  /\ UNCHANGED <<extVars, backend, config, currentInvocationId, phase, lastRead,
                 rejected, uuid, failures, rkind, rvia, rowner, rstatus,
                 forwarded, upstreamFailed, invId, startTime, istatus,
                 lastCallId, initLast, verVars>>

\* Durable store: the head task starts, calls getLatestSequence and awaits.
TaskBegin(c) ==
  /\ backend = "durable"
  /\ queue[c] # <<>> /\ phase[c] = "idle" /\ ~rejected[c]
  /\ lastRead' = [lastRead EXCEPT ![c] = getLatestSequence(config[c])]
  /\ sequences' = sequencesAfterRead(config[c])
  /\ phase' = [phase EXCEPT ![c] = "read"]
  /\ UNCHANGED <<extVars, backend, entries, config, currentInvocationId, queue,
                 rejected, now, uuid, failures, reqVars, invVars, lastCallId,
                 initLast, verVars>>

\* Durable store: the uncached query of getLatestSequence rejects; the task,
\* and with it the chain, is rejected.
TaskBeginFails(c) ==
  /\ backend = "durable"
  /\ queue[c] # <<>> /\ phase[c] = "idle" /\ ~rejected[c]
  /\ sequences[config[c]] = Undefined
  /\ failures < MaxStoreFailures
  /\ failures' = failures + 1
  /\ rejected' = [rejected EXCEPT ![c] = TRUE]
  /\ queue' = [queue EXCEPT ![c] = Tail(@)]
  /\ settle(Head(queue[c]), "getLatestSequence", 0)
  /\ UNCHANGED <<extVars, storeVars, config, currentInvocationId, phase, lastRead, now,
                 uuid, rkind, rvia, rowner, rstatus, forwarded,
                 upstreamFailed, invId, startTime, istatus, lastCallId,
                 initLast, verVars>>

\* Durable store: the await returns; build the entry, sign it, append it.
TaskAppend(c) ==
  /\ backend = "durable"
  /\ phase[c] = "read"
  /\ \E t \in 0..MaxTime : readClock(t)
  /\ commit(c, Head(queue[c]), nextSequence(lastRead[c]))
  /\ phase' = [phase EXCEPT ![c] = "idle"]
  /\ queue' = [queue EXCEPT ![c] = Tail(@)]
  /\ UNCHANGED <<extVars, backend, config, currentInvocationId, lastRead, rejected,
                 uuid, failures, rkind, rvia, rowner, rstatus, forwarded,
                 upstreamFailed, invId, startTime, istatus, lastCallId,
                 initLast, verVars>>

\* Durable store: the document write rejects; nothing is stored, the cache
\* is not updated, the chain is rejected.
TaskAppendFails(c) ==
  /\ backend = "durable"
  /\ phase[c] = "read"
  /\ failures < MaxStoreFailures
  /\ failures' = failures + 1
  /\ rejected' = [rejected EXCEPT ![c] = TRUE]
  /\ phase' = [phase EXCEPT ![c] = "idle"]
  /\ queue' = [queue EXCEPT ![c] = Tail(@)]
  /\ settle(Head(queue[c]), "append", 0)
  /\ UNCHANGED <<extVars, storeVars, config, currentInvocationId, lastRead, now, uuid,
                 rkind, rvia, rowner, rstatus, forwarded, upstreamFailed,
                 invId, startTime, istatus, lastCallId, initLast, verVars>>

\* A task chained behind a rejected promise never runs: then() passes the
\* rejection on to the caller.
TaskSkipped(c) ==
  /\ queue[c] # <<>> /\ phase[c] = "idle" /\ rejected[c]
  /\ queue' = [queue EXCEPT ![c] = Tail(@)]
  /\ settle(Head(queue[c]), "chained", 0)
  /\ UNCHANGED <<extVars, storeVars, config, currentInvocationId, phase, lastRead,
                 rejected, now, uuid, failures, rkind, rvia, rowner, rstatus,
                 forwarded, upstreamFailed, invId, startTime, istatus,
                 lastCallId, initLast, verVars>>

\* ------------------------------------------------------ proxy: one request
\* LoggingProxyServer.handleRequest / handleConnect up to the first await:
\* the request is parsed and logRequest chains its task.
receive(r, p, k, owner) ==
  /\ rpc[r] = "new"
  /\ config[p] # NoFid
  /\ rpc' = [rpc EXCEPT ![r] = "logging"]
  /\ rkind' = [rkind EXCEPT ![r] = k]
  /\ rvia' = [rvia EXCEPT ![r] = p]
  /\ rowner' = [rowner EXCEPT ![r] = owner]
  /\ queue' = chain(p, [t |-> "egress", id |-> r])

\* A client of the proxy sends a request (plain HTTP or CONNECT).
ClientRequest(r, p, k) ==
  /\ \A q \in Reqs : q < r => rpc[q] # "new"
  /\ receive(r, p, k, 0)
  /\ UNCHANGED <<extVars, storeVars, config, currentInvocationId, phase, lastRead,
                 rejected, now, uuid, failures, rstatus, rseq, forwarded,
                 upstreamFailed, failure, invVars, lastCallId, initLast, verVars>>

\* Variant: logRequest is called without await.
mayForwardUnawaited(r) == rpc[r] \in {"logging", "logged"}

\* The request may go upstream once `await this.logRequest(...)` returned.
mayForward(r) == rpc[r] = "logged"

\* http.request(...) / net.connect(...): the upstream connection is opened.
Forward(r) ==
  /\ mayForward(r)
  /\ rpc' = [rpc EXCEPT ![r] = "forwarding"]
  /\ forwarded' = forwarded \cup {r}
  /\ UNCHANGED <<extVars, storeVars, config, currentInvocationId, lockVars, now, uuid,
                 failures, rkind, rvia, rowner, rstatus, rseq, upstreamFailed,
                 failure, invVars, lastCallId, initLast, verVars>>

\* Variant: the catch block answers 502.
catchStatusBadGateway(k) == IF k = "http" THEN 502 ELSE 0

\* catch (err): writeHead(500) for plain HTTP; clientSocket.end() for CONNECT
\* (the client gets no status line).
catchStatus(k) == IF k = "http" THEN 500 ELSE 0

\* The catch block of handleRequest / handleConnect.
CatchError(r) ==
  /\ rpc[r] = "logfail"
  /\ rpc' = [rpc EXCEPT ![r] = "done"]
  /\ rstatus' = [rstatus EXCEPT ![r] = catchStatus(rkind[r])]
  /\ UNCHANGED <<extVars, storeVars, config, currentInvocationId, lockVars, now, uuid,
                 failures, rkind, rvia, rowner, rseq, forwarded,
                 upstreamFailed, failure, invVars, lastCallId, initLast, verVars>>

\* The upstream answered: its status is relayed (HTTP), or the tunnel is
\* established with "200 Connection Established" (CONNECT).
UpstreamResponse(r) ==
  /\ rpc[r] = "forwarding"
  /\ rpc' = [rpc EXCEPT ![r] = "done"]
  /\ rstatus' = [rstatus EXCEPT ![r] = 200]
  /\ UNCHANGED <<extVars, storeVars, config, currentInvocationId, lockVars, now, uuid,
                 failures, rkind, rvia, rowner, rseq, forwarded,
                 upstreamFailed, failure, invVars, lastCallId, initLast, verVars>>

\* proxyReq.on('error'): writeHead(502); serverSocket.on('error'):
\* clientSocket.end().
upstreamErrorStatus(k) == IF k = "http" THEN 502 ELSE 0

\* Variant: the error handler withdraws the entry of the failed request.
upstreamErrorEntriesRollback(r) ==
  [entries EXCEPT ![config[rvia[r]]] = SelectSeq(@, LAMBDA e : e.host # r)]

\* What the error handlers do to the store: nothing.
upstreamErrorEntries(r) == entries

\* The upstream connection failed.
UpstreamError(r) ==
  /\ rpc[r] = "forwarding"
  /\ rpc' = [rpc EXCEPT ![r] = "done"]
  /\ rstatus' = [rstatus EXCEPT ![r] = upstreamErrorStatus(rkind[r])]
  /\ upstreamFailed' = upstreamFailed \cup {r}
  /\ entries' = upstreamErrorEntries(r)
  /\ UNCHANGED <<extVars, backend, sequences, config, currentInvocationId, lockVars,
                 now, uuid, failures, rkind, rvia, rowner, rseq, forwarded,
                 failure, invVars, lastCallId, initLast, verVars>>

\* ------------------------------------------------- specification: one proxy
NextProxy ==
  \/ \E r \in Reqs, k \in Kinds : ClientRequest(r, "P1", k)
  \/ \E id \in CustomIds : HostSetInvocationId("P1", id)
  \/ HostNewInvocation("P1")
  \/ TaskRun("P1")
  \/ TaskBegin("P1")
  \/ TaskBeginFails("P1")
  \/ TaskAppend("P1")
  \/ TaskAppendFails("P1")
  \/ TaskSkipped("P1")
  \/ \E r \in Reqs : Forward(r)
  \/ \E r \in Reqs : CatchError(r)
  \/ \E r \in Reqs : UpstreamResponse(r)
  \/ \E r \in Reqs : UpstreamError(r)

SpecProxy == InitProxy /\ [][NextProxy]_vars

\* ------------------------------------------------------------ the runtime
\* DShieldRuntime.constructor: createLogStore returns an InMemoryLogStore;
\* one proxy and the audit layer append to it under their own functionIds.
InitRuntime ==
  /\ backend = "memory"
  /\ initLast = 0
  /\ entries = [f \in FunctionIds |-> <<>>]
  /\ config = [c \in Components |->
                 IF c = "P1" THEN RuntimeProxyFunctionId
                 ELSE IF c = "RT" THEN SERVER_FUNCTION_ID ELSE NoFid]
  /\ InitCommon

\* DShieldRuntime.handleRequest up to the wait for the body: startTime and
\* invocationId are taken.
RtArrive(i) ==
  /\ ipc[i] = "idle"
  /\ \A j \in Invs : j < i => ipc[j] # "idle"
  /\ \E t \in 0..MaxTime :
       readClock(t) /\ startTime' = [startTime EXCEPT ![i] = t]
  /\ uuid' = uuid + 1
  /\ invId' = [invId EXCEPT ![i] = uuid + 1]
  /\ ipc' = [ipc EXCEPT ![i] = "body"]
  /\ UNCHANGED <<extVars, storeVars, config, currentInvocationId, lockVars, failures,
                 reqVars, requestSeq, istatus, lastCallId, initLast, verVars>>

\* The body has been read: logRequest chains the request entry.
RtBodyEnd(i) ==
  /\ ipc[i] = "body"
  /\ ipc' = [ipc EXCEPT ![i] = "logReq"]
  /\ queue' = chain("RT", [t |-> "request", id |-> i])
  /\ UNCHANGED <<extVars, storeVars, config, currentInvocationId, phase, lastRead,
                 rejected, now, uuid, failures, reqVars, invId, startTime,
                 requestSeq, istatus, lastCallId, initLast, verVars>>

\* handleInvokeWithLogging up to the await of sandbox.execute: the proxy is
\* told handleRequest's invocation id, the function request takes a UUID as
\* its id, and FunctionSandbox.execute takes another (const invocationId =
\* randomUUID()), which it passes to the child as DSHIELD_INVOCATION_ID and
\* returns in the FunctionResult.
RtInvoke(i) ==
  /\ ipc[i] = "route"
  /\ ipc' = [ipc EXCEPT ![i] = "exec"]
  /\ setInvocationId("P1", invId[i])
  /\ uuid' = uuid + 2
  /\ execInvocationId' =
       [execInvocationId EXCEPT ![i] = uuid + 2]
  /\ UNCHANGED <<sbVars, regVars, mvVars, isoVars, pxVars, shVars, dpVars,
                 storeVars, config, lockVars, now, failures, reqVars,
                 invId, startTime, requestSeq, istatus, initLast, verVars>>

\* sendResponse(status, body) on the routes that run no user code (/health,
\* /functions, /publicKey, unknown route, unknown function): logResponse
\* chains the response entry.
RtSendResponse(i, st) ==
  /\ ipc[i] = "route"
  /\ ipc' = [ipc EXCEPT ![i] = "logRes"]
  /\ istatus' = [istatus EXCEPT ![i] = st]
  /\ queue' = chain("RT", [t |-> "response", id |-> i])
  /\ UNCHANGED <<extVars, storeVars, config, currentInvocationId, phase, lastRead,
                 rejected, now, uuid, failures, reqVars, invId, startTime,
                 requestSeq, lastCallId, initLast, verVars>>

\* Route /logs/:functionId: handleGetLogs reads the store and writes the
\* response itself.
RtHandleGetLogs(i) ==
  /\ ipc[i] = "route"
  /\ ipc' = [ipc EXCEPT ![i] = "done"]
  /\ istatus' = [istatus EXCEPT ![i] = 200]
  /\ UNCHANGED <<extVars, storeVars, config, currentInvocationId, lockVars, now, uuid,
                 failures, reqVars, invId, startTime, requestSeq, lastCallId,
                 initLast, verVars>>

\* The child of a running invocation sends a request through the proxy.
ChildRequest(i, r, k) ==
  /\ ipc[i] = "exec"
  /\ r <= MaxChildReqs
  /\ \A q \in Reqs : q < r => rpc[q] # "new"
  /\ receive(r, "P1", k, i)
  /\ UNCHANGED <<extVars, storeVars, config, currentInvocationId, phase, lastRead,
                 rejected, now, uuid, failures, rstatus, rseq, forwarded,
                 upstreamFailed, failure, invVars, lastCallId, initLast, verVars>>

\* sandbox.execute returned: the status is chosen and logResponse chains the
\* response entry.
RtChildExit(i, st) ==
  /\ ipc[i] = "exec"
  /\ ipc' = [ipc EXCEPT ![i] = "logRes"]
  /\ istatus' = [istatus EXCEPT ![i] = st]
  /\ queue' = chain("RT", [t |-> "response", id |-> i])
  /\ UNCHANGED <<extVars, storeVars, config, currentInvocationId, phase, lastRead,
                 rejected, now, uuid, failures, reqVars, invId, startTime,
                 requestSeq, lastCallId, initLast, verVars>>

\* res.writeHead(status, ...); res.end(responseBody)
RtSend(i) ==
  /\ ipc[i] = "send"
  /\ ipc' = [ipc EXCEPT ![i] = "done"]
  /\ UNCHANGED <<extVars, storeVars, config, currentInvocationId, lockVars, now, uuid,
                 failures, reqVars, invId, startTime, requestSeq, istatus,
                 lastCallId, initLast, verVars>>

\* The in-memory store rejects no call, so no task of the runtime fails and
\* no catch block runs.
NextRuntime ==
  \/ \E i \in Invs : RtArrive(i)
  \/ \E i \in Invs : RtBodyEnd(i)
  \/ \E i \in Invs : RtInvoke(i)
  \/ \E i \in Invs, st \in {200, 404} : RtSendResponse(i, st)
  \/ \E i \in Invs : RtHandleGetLogs(i)
  \/ \E i \in Invs, r \in Reqs, k \in Kinds : ChildRequest(i, r, k)
  \/ \E i \in Invs, st \in {200, 500} : RtChildExit(i, st)
  \/ \E i \in Invs : RtSend(i)
  \/ \E c \in {"P1", "RT"} : TaskRun(c)
  \/ \E r \in Reqs : Forward(r)
  \/ \E r \in Reqs : UpstreamResponse(r)
  \/ \E r \in Reqs : UpstreamError(r)

SpecRuntime == InitRuntime /\ [][NextRuntime]_vars

\* ------------------------------ two proxies built over one functionId/store
InitShared ==
  /\ backend \in Backends
  /\ initLast = 0
  /\ entries = [f \in FunctionIds |-> <<>>]
  /\ config = [c \in Components |->
                 IF c \in Proxies THEN TestFunctionId ELSE NoFid]
  /\ InitCommon

NextShared ==
  \/ \E r \in Reqs, p \in Proxies, k \in Kinds : ClientRequest(r, p, k)
  \/ \E p \in Proxies : TaskRun(p)
  \/ \E p \in Proxies : TaskBegin(p)
  \/ \E p \in Proxies : TaskBeginFails(p)
  \/ \E p \in Proxies : TaskAppend(p)
  \/ \E p \in Proxies : TaskAppendFails(p)
  \/ \E p \in Proxies : TaskSkipped(p)
  \/ \E r \in Reqs : Forward(r)
  \/ \E r \in Reqs : CatchError(r)
  \/ \E r \in Reqs : UpstreamResponse(r)
  \/ \E r \in Reqs : UpstreamError(r)

SpecShared == InitShared /\ [][NextShared]_vars

\* ------------------------------------------------------------ the verifier
\* const { signature, ...entryWithoutSig } = entry
entryWithoutSig(e) == [x \in (DOMAIN e) \ {"signature"} |-> e[x]]

RECURSIVE sortBySequence(_)
\* Array.prototype.sort with (a, b) => a.sequence - b.sequence: ascending and
\* stable.
sortBySequence(s) ==
  IF s = <<>> THEN <<>>
  ELSE LET init == sortBySequence(SubSeq(s, 1, Len(s) - 1))
           e == s[Len(s)]
       IN SelectSeq(init, LAMBDA x : x.sequence <= e.sequence) \o <<e>>
            \o SelectSeq(init, LAMBDA x : x.sequence > e.sequence)

\* Variant: the entries are checked in the order given.
sortedCopyAsGiven(es) == es

\* const sorted = [...entries].sort(...)
sortedCopy(es) == sortBySequence(es)

\* `Sequence should start at 1, but starts at ...`
startErrors(sorted) ==
  IF sorted[1].sequence # 1
  THEN <<[kind |-> "start", expected |-> 1, got |-> sorted[1].sequence]>>
  ELSE <<>>

\* `Sequence gap detected: expected ..., got ...`
gapErrors(sorted, i) ==
  IF sorted[i].sequence # i
  THEN <<[kind |-> "gap", expected |-> i, got |-> sorted[i].sequence]>>
  ELSE <<>>

\* `Invalid signature for sequence ...`
signatureErrors(sorted, i, publicKeyPem) ==
  IF ~verifySignature(entryWithoutSig(sorted[i]), sorted[i].signature,
                      publicKeyPem)
  THEN <<[kind |-> "signature", expected |-> i, got |-> sorted[i].sequence]>>
  ELSE <<>>

RECURSIVE loopErrors(_, _, _)
\* for (let i = 0; i < sorted.length; i++): the errors pushed from position
\* i on (positions count from 1 here).
loopErrors(sorted, i, publicKeyPem) ==
  IF i > Len(sorted) THEN <<>>
  ELSE gapErrors(sorted, i) \o signatureErrors(sorted, i, publicKeyPem)
         \o loopErrors(sorted, i + 1, publicKeyPem)

\* Variant: the verifier stops at the first problem.
collectErrorsFirstOnly(sorted, publicKeyPem) ==
  LET all == startErrors(sorted) \o loopErrors(sorted, 1, publicKeyPem)
  IN IF all = <<>> THEN <<>> ELSE <<all[1]>>

\* The errors array when the function returns.
collectErrors(sorted, publicKeyPem) ==
  startErrors(sorted) \o loopErrors(sorted, 1, publicKeyPem)

\* verifyLogIntegrity(entries, publicKeyPem, verifySignature)
verifyLogIntegrity(es, publicKeyPem) ==
  IF Len(es) = 0 THEN [valid |-> TRUE, errors |-> <<>>]
  ELSE LET errors == collectErrors(sortedCopy(es), publicKeyPem)
       IN [valid |-> Len(errors) = 0, errors |-> errors]

\* The value of vResult while the function has not been called.
NotCalled == [valid |-> FALSE, errors |-> <<>>]

\* createSignedEntry(seq, host) of the verifier tests.
createSignedEntry(seq, host) ==
  withSignature([sequence |-> seq, functionId |-> TestFunctionId,
                 invocationId |-> EmptyId, timestamp |-> seq,
                 method |-> "GET", host |-> host, path |-> 0,
                 protocol |-> "https"])

\* The entries a caller may hand over: as signed, with the host changed
\* after signing, or with the signature of another signer.
GoodHost == 1
EvilHost == 2
Conditions == {"intact", "tampered", "forged"}
inputEntry(seq, how) ==
  LET e == createSignedEntry(seq, GoodHost)
  IN IF how = "tampered" THEN [e EXCEPT !.host = EvilHost]
     ELSE IF how = "forged"
     THEN [e EXCEPT !.signature = [key |-> OtherKey,
                                   data |-> entryWithoutSig(e)]]
     ELSE e

\* No component is built; a caller collects entries and verifies them.
InitVerify ==
  /\ backend = "memory"
  /\ initLast = 0
  /\ entries = [f \in FunctionIds |-> <<>>]
  /\ config = [c \in Components |-> NoFid]
  /\ InitCommon

\* The caller adds one more entry to the array it will pass.
VerifyCollect(seq, how) ==
  /\ vResult = NotCalled
  /\ Len(vEntries) < MaxEntries
  /\ vEntries' = Append(vEntries, inputEntry(seq, how))
  /\ UNCHANGED <<extVars, storeVars, config, currentInvocationId, lockVars, now, uuid,
                 failures, reqVars, invVars, lastCallId, initLast, vKey,
                 vResult>>

\* The caller runs verifyLogIntegrity on the array with a public key.
VerifyCall(publicKeyPem) ==
  /\ vResult = NotCalled
  /\ vKey' = publicKeyPem
  /\ vResult' = verifyLogIntegrity(vEntries, publicKeyPem)
  /\ UNCHANGED <<extVars, storeVars, config, currentInvocationId, lockVars, now, uuid,
                 failures, reqVars, invVars, lastCallId, initLast, vEntries>>

NextVerify ==
  \/ \E seq \in 1..MaxSequence, how \in Conditions : VerifyCollect(seq, how)
  \/ \E k \in {PublicKey, OtherKey} : VerifyCall(k)

SpecVerify == InitVerify /\ [][NextVerify]_vars

\* ------------------------------------------- direct callers of a log store
\* The functionIds the callers use.
CallerFunctionIds == {TestFunctionId, SERVER_FUNCTION_ID}

\* Entries held by the store over all functions.
storedCount == Len(entries[TestFunctionId]) + Len(entries[SERVER_FUNCTION_ID])

\* A store of either kind, no proxy or runtime built on it.
InitStore ==
  /\ backend \in Backends
  /\ initLast = 0
  /\ entries = [f \in FunctionIds |-> <<>>]
  /\ config = [c \in Components |-> NoFid]
  /\ InitCommon

\* The entry a caller builds: signed, with a sequence of its own choosing.
callerEntry(f, seq, host) ==
  [createSignedEntry(seq, host) EXCEPT !.functionId = f]

\* await store.append(entry)
StoreAppend(f, seq, host) ==
  /\ storedCount < MaxEntries
  /\ entries' = appendEntries(callerEntry(f, seq, host))
  /\ sequences' = appendSequences(callerEntry(f, seq, host))
  /\ UNCHANGED <<extVars, backend, config, currentInvocationId, lockVars, now, uuid,
                 failures, reqVars, invVars, lastCallId, initLast, verVars>>

\* InMemoryLogStore.append pushes the caller's object itself, so a later
\* write to that object is a write to the stored entry; FirestoreLogStore
\* sends a copy to the database.
entriesAfterWrite(f, k, host) ==
  IF backend = "memory"
  THEN [entries EXCEPT ![f][k].host = host]
  ELSE entries

\* The caller assigns to a field of an object it has passed to append.
CallerWritesEntry(f, k, host) ==
  /\ k \in DOMAIN entries[f]
  /\ entries[f][k].host # host
  /\ entries' = entriesAfterWrite(f, k, host)
  /\ UNCHANGED <<extVars, backend, sequences, config, currentInvocationId, lockVars,
                 now, uuid, failures, reqVars, invVars, lastCallId, initLast,
                 verVars>>

\* InMemoryLogStore.getAll returns the store's own array, so removing an
\* element from the result removes it from the store; FirestoreLogStore
\* builds a new array on every call.
entriesAfterPop(f) ==
  IF backend = "memory"
  THEN [entries EXCEPT ![f] = SubSeq(@, 1, Len(@) - 1)]
  ELSE entries

\* The caller takes getAll(f) and pops the last element off the result.
CallerPopsResult(f) ==
  /\ getAll(f) # <<>>
  /\ vEntries' = SubSeq(getAll(f), 1, Len(getAll(f)) - 1)
  /\ entries' = entriesAfterPop(f)
  /\ UNCHANGED <<extVars, backend, sequences, config, currentInvocationId, lockVars,
                 now, uuid, failures, reqVars, invVars, lastCallId, initLast,
                 vKey, vResult>>

NextStore ==
  \/ \E f \in CallerFunctionIds, seq \in 1..MaxEntries,
        host \in {GoodHost, EvilHost} : StoreAppend(f, seq, host)
  \/ \E f \in CallerFunctionIds, k \in 1..MaxEntries,
        host \in {GoodHost, EvilHost} : CallerWritesEntry(f, k, host)
  \/ \E f \in CallerFunctionIds : CallerPopsResult(f)

SpecStore == InitStore /\ [][NextStore]_vars

\* ------------------------------------------------------- function sandbox
coreVars == <<storeVars, config, currentInvocationId, lockVars, now, uuid,
              failures, reqVars, invVars, lastCallId, initLast, verVars>>

sbRest == <<coreVars, regVars, mvVars, isoVars, pxVars, shVars, dpVars,
            exVars>>

\* FunctionConfig.runtime: the two supported values and one that is not.
Runtimes == {"node", "python", "ruby"}

\* const timeout = this.functionConfig.timeout || 30000
DefaultTimeout == 30000
timeoutOf(cfg) == IF cfg.timeout = 0 THEN DefaultTimeout ELSE cfg.timeout

\* The exit codes of a child that ends by itself; null after a signal.
ExitCodes == {0, 1}
NullCode == 0 - 1
StderrTexts == {1, 2}

\* Variant: every resolve or reject call replaces the outcome.
settleLast(p, state, kind, text) ==
  [state |-> state, kind |-> kind, text |-> text]

\* resolve(...) / reject(...): only the first call settles the promise.
settleOnce(p, state, kind, text) ==
  IF p.state = "pending"
  THEN [state |-> state, kind |-> kind, text |-> text]
  ELSE p

\* No component is built yet; each is created or started by its own action.
InitIdle ==
  /\ backend = "memory"
  /\ initLast = 0
  /\ entries = [f \in FunctionIds |-> <<>>]
  /\ config = [c \in Components |-> NoFid]
  /\ InitCommon

\* createSandbox(functionConfig, sandboxConfig)
SbCreate(runtime, timeout) ==
  /\ sbpc = "absent"
  /\ sbConfig' = [runtime |-> runtime, timeout |-> timeout]
  /\ sbpc' = "idle"
  /\ UNCHANGED <<sbRest, sbNow, sbChild, sbTimer, sbPromise, sbClose,
                 sbResult>>

\* execute -> runInSubprocess, the promise executor: an unsupported runtime
\* or a spawn that throws rejects at once; otherwise the child runs and the
\* timer is armed.
SbExecute(spawnThrows) ==
  /\ sbpc = "idle"
  /\ sbpc' = "awaiting"
  /\ IF sbConfig.runtime \notin {"node", "python"}
     THEN /\ sbPromise' = settleOnce(sbPromise, "rejected", "unsupported", 0)
          /\ UNCHANGED <<sbChild, sbTimer>>
     ELSE IF spawnThrows
     THEN /\ sbPromise' = settleOnce(sbPromise, "rejected", "spawn", 0)
          /\ UNCHANGED <<sbChild, sbTimer>>
     ELSE /\ sbChild' = "running"
          /\ sbTimer' = TRUE
          /\ UNCHANGED sbPromise
  /\ UNCHANGED <<sbRest, sbConfig, sbNow, sbClose, sbResult>>

\* Time passes.  An armed timer runs its callback when it is due, so the
\* clock does not pass the deadline while the timer is armed.
SbAdvance(t) ==
  /\ sbpc \in {"awaiting", "returned"}
  /\ t > sbNow
  /\ sbTimer => t <= timeoutOf(sbConfig)
  /\ sbNow' = t
  /\ UNCHANGED <<sbRest, sbConfig, sbpc, sbChild, sbTimer, sbPromise,
                 sbClose, sbResult>>

\* Variant: the timer callback rejects but leaves the child alone.
childAfterTimeoutSpared(c) == c

\* child.kill('SIGKILL')
childAfterTimeout(c) == IF c = "running" THEN "killed" ELSE c

\* setTimeout callback: kill the child, reject with `Function timed out`.
SbTimeout ==
  /\ sbTimer /\ sbNow = timeoutOf(sbConfig)
  /\ sbTimer' = FALSE
  /\ sbChild' = childAfterTimeout(sbChild)
  /\ sbPromise' = settleOnce(sbPromise, "rejected", "timeout", 0)
  /\ UNCHANGED <<sbRest, sbConfig, sbpc, sbNow, sbClose, sbResult>>

\* Variant: any close resolves the promise with whatever was printed.
afterCloseAlwaysResolves(p, code, parses, stderr) ==
  settleOnce(p, "resolved", "none", 0)

\* child.on('close'): non-zero code rejects with the stderr text, output
\* that does not parse rejects, otherwise the parsed response resolves.
afterClose(p, code, parses, stderr) ==
  IF code # 0 THEN settleOnce(p, "rejected", "exit", stderr)
  ELSE IF parses THEN settleOnce(p, "resolved", "none", 0)
  ELSE settleOnce(p, "rejected", "invalid", 0)

\* The child ended by itself and its streams closed.
SbClose(code, parses, stderr) ==
  /\ sbChild = "running"
  /\ sbChild' = "closed"
  /\ sbTimer' = FALSE
  /\ sbClose' = [code |-> code, parses |-> parses, stderr |-> stderr]
  /\ sbPromise' = afterClose(sbPromise, code, parses, stderr)
  /\ UNCHANGED <<sbRest, sbConfig, sbpc, sbNow, sbResult>>

\* The close event of a child the timer killed: code null.
SbKilledClose ==
  /\ sbChild = "killed" /\ sbClose = NoClose
  /\ sbTimer' = FALSE
  /\ sbClose' = [code |-> NullCode, parses |-> FALSE, stderr |-> 0]
  /\ sbPromise' = afterClose(sbPromise, NullCode, FALSE, 0)
  /\ UNCHANGED <<sbRest, sbConfig, sbpc, sbNow, sbChild, sbResult>>

\* child.on('error'): the process could not be spawned.
SbSpawnError ==
  /\ sbChild = "running" /\ sbNow = 0
  /\ sbChild' = "failed"
  /\ sbTimer' = FALSE
  /\ sbPromise' = settleOnce(sbPromise, "rejected", "spawn", 0)
  /\ UNCHANGED <<sbRest, sbConfig, sbpc, sbNow, sbClose, sbResult>>

\* Variant: a rejection of runInSubprocess leaves execute as an exception.
executeResultRethrows(p, t) ==
  [outcome |-> IF p.state = "resolved" THEN "returned" ELSE "raised",
   success |-> p.state = "resolved", error |-> p, durationMs |-> t,
   invocationId |-> TRUE]

\* execute: the try block returns success, the catch block returns the
\* failure; both carry durationMs and invocationId.
executeResult(p, t) ==
  [outcome |-> "returned", success |-> p.state = "resolved", error |-> p,
   durationMs |-> t, invocationId |-> TRUE]

\* The await in execute resumes and execute returns.
SbReturn ==
  /\ sbpc = "awaiting" /\ sbPromise.state # "pending"
  /\ sbpc' = "returned"
  /\ sbResult' = executeResult(sbPromise, sbNow)
  /\ UNCHANGED <<sbRest, sbConfig, sbNow, sbChild, sbTimer, sbPromise,
                 sbClose>>

\* The instants the clock is looked at: around each deadline.
TimePoints ==
  UNION {{d - 1, d, d + 1} : d \in (1..MaxTimeout) \cup {DefaultTimeout}}

NextSandbox ==
  \/ \E r \in Runtimes, t \in 0..MaxTimeout : SbCreate(r, t)
  \/ \E b \in BOOLEAN : SbExecute(b)
  \/ \E t \in TimePoints : SbAdvance(t)
  \/ SbTimeout
  \/ \E c \in ExitCodes, ok \in BOOLEAN, e \in StderrTexts : SbClose(c, ok, e)
  \/ SbKilledClose
  \/ SbSpawnError
  \/ SbReturn

SpecSandbox == InitIdle /\ [][NextSandbox]_vars

\* ------------------------------------------------------ manifest registry
regRest == <<coreVars, sbVars, mvVars, isoVars, pxVars, shVars, dpVars,
             exVars>>

\* Variant: the bundle-hash index is written before the checks.
byBundleHashIndexedFirst(signedManifest, accepted) ==
  [byBundleHash EXCEPT ![signedManifest.manifest.bundleHash] =
     signedManifest.manifest.manifestId]

\* this.byBundleHash.set(bundleHash, manifestId), reached only when accepted
byBundleHashAfterRegister(signedManifest, accepted) ==
  IF accepted
  THEN [byBundleHash EXCEPT ![signedManifest.manifest.bundleHash] =
          signedManifest.manifest.manifestId]
  ELSE byBundleHash

\* ManifestRegistry.register: the reason of a rejection, <<>> if accepted.
registerError(signedManifest) ==
  IF ~verifyManifestSignature(signedManifest, NoKey)
  THEN <<"Invalid manifest signature">>
  ELSE IF manifests[signedManifest.manifest.manifestId] # NoManifest
  THEN <<"already registered", signedManifest.manifest.manifestId>>
  ELSE <<>>

\* POST /api/manifests: handleRegister -> register.
RegRegister(signedManifest, setLatest) ==
  LET error == registerError(signedManifest)
      manifestId == signedManifest.manifest.manifestId
      name == signedManifest.manifest.name
      previousManifestId == latestByName[name]
  IN /\ byBundleHash' = byBundleHashAfterRegister(signedManifest, error = <<>>)
     /\ IF error = <<>>
        THEN /\ manifests' = [manifests EXCEPT ![manifestId] = signedManifest]
             /\ chainLinks' =
                  IF previousManifestId # NoId
                  THEN [chainLinks EXCEPT ![manifestId] = previousManifestId]
                  ELSE chainLinks
             /\ latestByName' =
                  IF setLatest THEN [latestByName EXCEPT ![name] = manifestId]
                  ELSE latestByName
        ELSE UNCHANGED <<manifests, chainLinks, latestByName>>
     /\ regReply' =
          IF error = <<>>
          THEN [op |-> "register", status |-> 201, success |-> TRUE,
                entry |-> [manifestId |-> manifestId, name |-> name,
                           bundleHash |-> signedManifest.manifest.bundleHash,
                           keyFingerprint |-> signedManifest.keyFingerprint,
                           isLatest |-> setLatest,
                           previousManifestId |-> previousManifestId]]
          ELSE [op |-> "register", status |-> 400, success |-> FALSE,
                reason |-> error]
     /\ UNCHANGED regRest

\* POST /api/manifests with a body that has no signedManifest.
RegRegisterEmpty ==
  /\ regReply' = [op |-> "register", status |-> 400, success |-> FALSE,
                  reason |-> <<"Missing signedManifest">>]
  /\ UNCHANGED <<regRest, manifests, latestByName, byBundleHash, chainLinks>>

\* DELETE /api/manifests/:id: handleDelete -> delete.
RegDelete(manifestId) ==
  LET manifest == manifests[manifestId]
      bundleHash == manifest.manifest.bundleHash
      name == manifest.manifest.name
      previousId == chainLinks[manifestId]
  IN IF manifest = NoManifest
     THEN /\ regReply' = [op |-> "delete", status |-> 404,
                          request |-> manifestId]
          /\ UNCHANGED <<regRest, manifests, latestByName, byBundleHash,
                         chainLinks>>
     ELSE /\ manifests' = [manifests EXCEPT ![manifestId] = NoManifest]
          /\ byBundleHash' = [byBundleHash EXCEPT ![bundleHash] = NoId]
          /\ latestByName' =
               IF latestByName[name] = manifestId
               THEN [latestByName EXCEPT ![name] = previousId]
               ELSE latestByName
          /\ chainLinks' = [chainLinks EXCEPT ![manifestId] = NoId]
          /\ regReply' = [op |-> "delete", status |-> 200,
                          request |-> manifestId]
          /\ UNCHANGED regRest

\* getByBundleHash
getByBundleHash(bundleHash) ==
  IF byBundleHash[bundleHash] # NoId
  THEN manifests[byBundleHash[bundleHash]]
  ELSE NoManifest

\* ManifestRegistry.verifyBundleHash
registryVerifyBundleHash(bundleHash, trustedFingerprints) ==
  LET manifest == getByBundleHash(bundleHash)
  IN IF manifest = NoManifest
     THEN [trusted |-> FALSE, manifest |-> NoManifest,
           reason |-> "Bundle hash not registered"]
     ELSE IF /\ trustedFingerprints # {}
             /\ manifest.keyFingerprint \notin trustedFingerprints
     THEN [trusted |-> FALSE, manifest |-> manifest,
           reason |-> "Manifest signed by untrusted key"]
     ELSE [trusted |-> TRUE, manifest |-> manifest, reason |-> ""]

Fingerprints == {computeKeyFingerprint(k) : k \in Keys}

\* POST /api/manifests/check-hash: handleCheckHash -> verifyBundleHash.
RegCheckHash(bundleHash, trustedFingerprints) ==
  /\ IF bundleHash = NoHash
     THEN regReply' = [op |-> "check", status |-> 400,
                       bundleHash |-> bundleHash,
                       trustedFingerprints |-> trustedFingerprints,
                       result |-> [trusted |-> FALSE, manifest |-> NoManifest,
                                   reason |-> "Missing bundleHash"]]
     ELSE LET result ==
                registryVerifyBundleHash(bundleHash, trustedFingerprints)
          IN regReply' = [op |-> "check",
                          status |-> IF result.trusted THEN 200 ELSE 404,
                          bundleHash |-> bundleHash,
                          trustedFingerprints |-> trustedFingerprints,
                          result |-> result]
  /\ UNCHANGED <<regRest, manifests, latestByName, byBundleHash, chainLinks>>

\* getManifestChain(manifestId), the loop `while (currentId)`: the value of
\* currentId after at most `steps` iterations.  With MaxManifests ids, a walk
\* that has not reached undefined after MaxManifests + 1 iterations is on a
\* cycle and never ends.
RECURSIVE chainWalk(_, _)
chainWalk(currentId, steps) ==
  IF currentId = NoId \/ steps = 0 THEN currentId
  ELSE chainWalk(chainLinks[currentId], steps - 1)

getManifestChainTerminates(manifestId) ==
  chainWalk(manifestId, MaxManifests + 1) = NoId

NextRegistry ==
  \/ \E sm \in SignedManifests, setLatest \in BOOLEAN : RegRegister(sm, setLatest)
  \/ RegRegisterEmpty
  \/ \E id \in ManifestIds : RegDelete(id)
  \/ \E h \in BundleHashes \cup {NoHash}, tf \in SUBSET Fingerprints :
       RegCheckHash(h, tf)

SpecRegistry == InitIdle /\ [][NextRegistry]_vars

\* ---------------------------------------------------- manifest verifier
mvRest == <<coreVars, sbVars, regVars, isoVars, pxVars, shVars, dpVars,
            exVars>>

\* signer.verifyBundleHash(manifest)
verifyBundleHash(manifest) ==
  computeBundleHash(manifest.files) = manifest.bundleHash

\* The file loop: one result per listed file, an error per mismatch and a
\* warning per file without content; without contents a single warning.
RECURSIVE fileLoop(_, _, _)
fileLoop(files, fileContents, i) ==
  IF i > Len(files)
  THEN [fileResults |-> <<>>, errors |-> <<>>, warnings |-> <<>>]
  ELSE LET file == files[i]
           content == fileContents.content[file.path]
           rest == fileLoop(files, fileContents, i + 1)
       IN IF content = NoContent
          THEN [fileResults |->
                  <<[path |-> file.path, valid |-> FALSE,
                     error |-> "File content not provided"]>>
                  \o rest.fileResults,
                errors |-> rest.errors,
                warnings |-> <<<<"File content not provided", file.path>>>>
                             \o rest.warnings]
          ELSE LET valid == sha256(content) = file.hash
               IN [fileResults |->
                     <<[path |-> file.path, valid |-> valid,
                        error |-> IF valid THEN "" ELSE "Hash mismatch"]>>
                     \o rest.fileResults,
                   errors |-> (IF valid THEN <<>>
                               ELSE <<<<"Hash mismatch", file.path>>>>)
                              \o rest.errors,
                   warnings |-> rest.warnings]

fileChecks(files, fileContents) ==
  IF fileContents.supplied
  THEN fileLoop(files, fileContents, 1)
  ELSE [fileResults |-> <<>>, errors |-> <<>>,
        warnings |-> <<<<"File contents not provided", 0>>>>]

\* Variant: a fingerprint that differs is not reported.
fingerprintErrorsNone(signedManifest) == <<>>

\* Check key fingerprint
fingerprintErrors(signedManifest) ==
  IF computeKeyFingerprint(signedManifest.publicKey)
       # signedManifest.keyFingerprint
  THEN <<<<"Key fingerprint mismatch", 0>>>>
  ELSE <<>>

verifyClientManifest(signedManifest, fileContents, trustedPublicKey) ==
  LET signatureValid ==
        verifyManifestSignature(signedManifest, trustedPublicKey)
      bundleHashValid == verifyBundleHash(signedManifest.manifest)
      checks == fileChecks(signedManifest.manifest.files, fileContents)
      errors ==
        (IF signatureValid THEN <<>>
         ELSE <<<<"Invalid manifest signature", 0>>>>)
        \o (IF bundleHashValid THEN <<>>
            ELSE <<<<"Bundle hash does not match file hashes", 0>>>>)
        \o checks.errors
        \o fingerprintErrors(signedManifest)
  IN [valid |-> errors = <<>> /\ signatureValid /\ bundleHashValid,
      signatureValid |-> signatureValid,
      bundleHashValid |-> bundleHashValid,
      fileResults |-> checks.fileResults,
      errors |-> errors,
      warnings |-> checks.warnings]

\* The file lists of the manifests handed in: up to MaxFiles files with
\* distinct paths, in any order.
FileLists ==
  {<<>>}
  \cup {<<fileEntry(p, c)>> : p \in Paths, c \in 1..MaxContents}
  \cup {fl \in {<<fileEntry(p, c), fileEntry(q, e)>> :
                    p \in Paths, q \in Paths, c \in 1..MaxContents,
                    e \in 1..MaxContents} : fl[1].path # fl[2].path}

\* A bundle hash that belongs to some other build.
StaleBundleHash == computeBundleHash(<<fileEntry(MaxFiles + 1, 1)>>)

\* A PEM that does not parse.
GarbagePem == "garbage"

\* The signed manifests handed in: the bundle hash right or stale, signed
\* over the manifest as handed in or as it was with the other hash, any
\* embedded key and fingerprint.
checkedManifest(files, fresh) ==
  [manifestId |-> 1, name |-> "app", files |-> files,
   bundleHash |-> IF fresh THEN computeBundleHash(files) ELSE StaleBundleHash]

CheckedManifests ==
  {[manifest |-> checkedManifest(files, fresh),
    signature |-> signatureOf(k, checkedManifest(files, signedFresh)),
    publicKey |-> pk, keyFingerprint |-> computeKeyFingerprint(fk)] :
      files \in FileLists, fresh \in BOOLEAN, signedFresh \in BOOLEAN,
      k \in Keys, pk \in Keys \cup {GarbagePem}, fk \in Keys}

FileContents ==
  {NoFileContents}
  \cup {[supplied |-> TRUE, content |-> c] :
          c \in [Paths -> {NoContent} \cup (1..MaxContents)]}

\* A caller holds a signed manifest, perhaps file contents and a trusted key.
MvReceive(signedManifest, fileContents, trustedPublicKey) ==
  /\ mvpc = "idle"
  /\ mvpc' = "given"
  /\ mvInput' = [signedManifest |-> signedManifest,
                 fileContents |-> fileContents,
                 trustedPublicKey |-> trustedPublicKey]
  /\ UNCHANGED <<mvRest, mvResult>>

\* verifyClientManifest(signedManifest, fileContents, trustedPublicKey)
MvVerify ==
  /\ mvpc = "given"
  /\ mvpc' = "verified"
  /\ mvResult' = verifyClientManifest(mvInput.signedManifest,
                                      mvInput.fileContents,
                                      mvInput.trustedPublicKey)
  /\ UNCHANGED <<mvRest, mvInput>>

NextManifestCheck ==
  \/ \E sm \in CheckedManifests, fc \in FileContents,
        tk \in Keys \cup {NoKey} : MvReceive(sm, fc, tk)
  \/ MvVerify

SpecManifestCheck == InitIdle /\ [][NextManifestCheck]_vars

\* ------------------------------------------------------ isolation layers
isoRest == <<coreVars, sbVars, regVars, mvVars, pxVars, shVars, dpVars,
             exVars>>

Platforms == {"linux", "darwin", "win32"}

\* isNetworkNamespaceSupported: Linux and `ip netns help` succeeds.
isNetworkNamespaceSupported(platform, ipNetns) ==
  platform = "linux" /\ ipNetns

\* What the kernel-config check meets: the line CONFIG_SECCOMP=y, no such
\* line, or an exception.
SeccompProbes == {"y", "empty", "throws"}

\* isSeccompSupported: Linux, and the line is found or the check threw.
isSeccompSupported(platform, probe) ==
  platform = "linux" /\ probe \in {"y", "throws"}

\* Variant: any one layer is enough for `partial`.
isolationLevelAnyLayer(networkNamespace, ldPreload, seccomp) ==
  IF networkNamespace /\ ldPreload /\ seccomp THEN "full"
  ELSE IF networkNamespace \/ ldPreload \/ seccomp THEN "partial"
  ELSE "minimal"

\* Determine overall isolation level
isolationLevel(networkNamespace, ldPreload, seccomp) ==
  IF networkNamespace /\ ldPreload /\ seccomp THEN "full"
  ELSE IF networkNamespace \/ ldPreload THEN "partial"
  ELSE "minimal"

getIsolationCapabilities(platform, ipNetns, probe) ==
  LET networkNamespace == isNetworkNamespaceSupported(platform, ipNetns)
      ldPreload == platform = "linux"
      seccomp == isSeccompSupported(platform, probe)
  IN [platform |-> platform, networkNamespace |-> networkNamespace,
      ldPreload |-> ldPreload, seccomp |-> seccomp,
      isolationLevel |-> isolationLevel(networkNamespace, ldPreload, seccomp)]

\* getIsolationCapabilities() in some environment.
IsoProbe(platform, ipNetns, probe) ==
  /\ isoCaps' = getIsolationCapabilities(platform, ipNetns, probe)
  /\ UNCHANGED <<isoRest, isoProfile, isoVerdict>>

NETWORK_SYSCALLS ==
  {"socket", "socketpair", "connect", "accept", "accept4", "send", "sendto",
   "sendmsg", "sendmmsg", "recv", "recvfrom", "recvmsg", "recvmmsg",
   "setsockopt", "getsockopt", "bind", "listen", "getpeername",
   "getsockname"}

DANGEROUS_SYSCALLS ==
  {"ptrace", "process_vm_readv", "process_vm_writev", "init_module",
   "finit_module", "delete_module", "syslog", "sysctl", "acct", "mount",
   "umount", "umount2", "pivot_root", "setns", "unshare", "setuid", "setgid",
   "setreuid", "setregid", "setresuid", "setresgid", "setgroups"}

AF_UNIX == 1
AF_INET == 2
AF_INET6 == 10
AF_NETLINK == 16
AF_PACKET == 17
SOCKET_DOMAINS == {AF_UNIX, AF_INET, AF_INET6, AF_NETLINK, AF_PACKET}

EPERM == 1
EACCES == 13
NoErrno == 0
AnyArg == 0 - 1

\* A rule on the named syscalls, whatever their arguments.
namesRule(names, action, errnoRet) ==
  [names |-> names, action |-> action, errnoRet |-> errnoRet,
   arg0 |-> AnyArg]

\* Variant: a socket of the family is refused with EPERM.
socketRuleEperm(domain) ==
  [names |-> {"socket"}, action |-> "SCMP_ACT_ERRNO", errnoRet |-> EPERM,
   arg0 |-> domain]

\* { names: ['socket'], action: 'SCMP_ACT_ERRNO', errnoRet: 13,
\*   args: [{ index: 0, value: domain, op: 'SCMP_CMP_EQ' }] }
socketRule(domain) ==
  [names |-> {"socket"}, action |-> "SCMP_ACT_ERRNO", errnoRet |-> EACCES,
   arg0 |-> domain]

createStrictProfile ==
  [name |-> "strict", defaultAction |-> "SCMP_ACT_ALLOW",
   syscalls |-> <<namesRule(DANGEROUS_SYSCALLS, "SCMP_ACT_ERRNO", EPERM),
                  socketRule(AF_PACKET), socketRule(AF_NETLINK)>>]

createLoggingProfile ==
  [name |-> "logging", defaultAction |-> "SCMP_ACT_ALLOW",
   syscalls |-> <<namesRule(NETWORK_SYSCALLS, "SCMP_ACT_LOG", NoErrno)>>]

createParanoidProfile ==
  [name |-> "paranoid", defaultAction |-> "SCMP_ACT_ALLOW",
   syscalls |-> <<namesRule(DANGEROUS_SYSCALLS, "SCMP_ACT_KILL_PROCESS",
                            NoErrno),
                  socketRule(AF_INET), socketRule(AF_INET6),
                  socketRule(AF_PACKET), socketRule(AF_NETLINK)>>]

getRecommendedProfile(debug, paranoid) ==
  IF debug THEN createLoggingProfile
  ELSE IF paranoid THEN createParanoidProfile
  ELSE createStrictProfile

\* A fresh sandbox process is given the profile recommended for the options.
IsoInstall(debug, paranoid) ==
  /\ isoProfile' = getRecommendedProfile(debug, paranoid)
  /\ isoVerdict' = NoVerdict
  /\ UNCHANGED <<isoRest, isoCaps>>

\* A rule applies to a call of one of its names whose first argument
\* satisfies its comparison, if it has one.
ruleMatches(rule, name, arg0) ==
  /\ name \in rule.names
  /\ rule.arg0 = AnyArg \/ rule.arg0 = arg0

\* The filter built from the profile: the action of the rule that applies,
\* the default action if none does.
filterVerdict(profile, name, arg0) ==
  LET hits == {i \in DOMAIN profile.syscalls :
                 ruleMatches(profile.syscalls[i], name, arg0)}
  IN IF hits = {}
     THEN [name |-> name, arg0 |-> arg0, matched |-> FALSE,
           action |-> profile.defaultAction, errnoRet |-> NoErrno]
     ELSE LET rule == profile.syscalls[CHOOSE i \in hits :
                                         \A j \in hits : i <= j]
          IN [name |-> name, arg0 |-> arg0, matched |-> TRUE,
              action |-> rule.action, errnoRet |-> rule.errnoRet]

\* The system calls a function may attempt.
Syscalls == DANGEROUS_SYSCALLS \cup NETWORK_SYSCALLS \cup {"read", "write"}

\* The sandboxed function makes a system call under the installed filter.
IsoSyscall(name, arg0) ==
  /\ isoProfile # NoProfile
  /\ isoVerdict' = filterVerdict(isoProfile, name, arg0)
  /\ UNCHANGED <<isoRest, isoCaps, isoProfile>>

NextIsolation ==
  \/ \E pf \in Platforms, ip \in BOOLEAN, pr \in SeccompProbes :
       IsoProbe(pf, ip, pr)
  \/ \E debug \in BOOLEAN, paranoid \in BOOLEAN : IsoInstall(debug, paranoid)
  \/ \E name \in Syscalls, arg0 \in SOCKET_DOMAINS : IsoSyscall(name, arg0)

SpecIsolation == InitIdle /\ [][NextIsolation]_vars

\* ------------------------------------------------- proxy start and stop
pxRest == <<coreVars, sbVars, regVars, mvVars, isoVars, shVars, dpVars,
            exVars>>

InFlight == {"active", "tunnel"}
Open == {"active", "idle", "tunnel"}

\* start(): server.listen
PxStart ==
  /\ ~pxListening /\ pxStop = "idle"
  /\ pxListening' = TRUE
  /\ UNCHANGED <<pxRest, pxConn, pxLast, pxClosedBy, pxStop>>

\* A client connects and sends a request.
PxAccept(c) ==
  /\ pxListening /\ pxConn[c] = "none"
  /\ pxConn' = [pxConn EXCEPT ![c] = "active"]
  /\ UNCHANGED <<pxRest, pxListening, pxLast, pxClosedBy, pxStop>>

\* The response of a plain request is complete; the connection is kept alive.
PxResponseEnd(c) ==
  /\ pxConn[c] = "active"
  /\ pxConn' = [pxConn EXCEPT ![c] = "idle"]
  /\ UNCHANGED <<pxRest, pxListening, pxLast, pxClosedBy, pxStop>>

\* A further request on a kept-alive connection.
PxNextRequest(c) ==
  /\ pxConn[c] = "idle"
  /\ pxConn' = [pxConn EXCEPT ![c] = "active"]
  /\ UNCHANGED <<pxRest, pxListening, pxLast, pxClosedBy, pxStop>>

\* handleConnect: the tunnel is established and the sockets are piped.
PxTunnel(c) ==
  /\ pxConn[c] = "active"
  /\ pxConn' = [pxConn EXCEPT ![c] = "tunnel"]
  /\ UNCHANGED <<pxRest, pxListening, pxLast, pxClosedBy, pxStop>>

\* The connection ends by itself: the client or the upstream closes it, or
\* its keep-alive time runs out.
PxConnClose(c) ==
  /\ pxConn[c] \in Open
  /\ pxConn' = [pxConn EXCEPT ![c] = "closed"]
  /\ pxLast' = [pxLast EXCEPT ![c] = pxConn[c]]
  /\ pxClosedBy' = [pxClosedBy EXCEPT ![c] =
                      IF pxStop = "pending" THEN "peer-late" ELSE "peer"]
  /\ UNCHANGED <<pxRest, pxListening, pxStop>>

\* Variant: close ends every open connection.
closedByServerAll(state, closesIdle) == state \in Open

\* server.close(): no connection with a request or a tunnel in progress is
\* touched; a runtime that closes idle connections on close ends those.
closedByServer(state, closesIdle) == state = "idle" /\ closesIdle

\* stop(): server.close(callback).  A server that is not listening calls
\* back with an error at once.
PxStop(closesIdle) ==
  /\ pxStop = "idle"
  /\ IF ~pxListening
     THEN /\ pxStop' = "rejected"
          /\ UNCHANGED <<pxListening, pxConn, pxLast, pxClosedBy>>
     ELSE /\ pxStop' = "pending"
          /\ pxListening' = FALSE
          /\ pxConn' = [c \in Conns |->
                          IF closedByServer(pxConn[c], closesIdle)
                          THEN "closed" ELSE pxConn[c]]
          /\ pxLast' = [c \in Conns |->
                          IF closedByServer(pxConn[c], closesIdle)
                          THEN pxConn[c] ELSE pxLast[c]]
          /\ pxClosedBy' = [c \in Conns |->
                              IF closedByServer(pxConn[c], closesIdle)
                              THEN "server" ELSE pxClosedBy[c]]
  /\ UNCHANGED pxRest

\* The server's close event: the listener is closed and no connection is
\* left; the callback resolves stop().
PxStopped ==
  /\ pxStop = "pending"
  /\ ~pxListening
  /\ \A c \in Conns : pxConn[c] \notin Open
  /\ pxStop' = "resolved"
  /\ UNCHANGED <<pxRest, pxListening, pxConn, pxLast, pxClosedBy>>

NextListener ==
  \/ PxStart
  \/ \E c \in Conns :
       \/ PxAccept(c)
       \/ PxResponseEnd(c)
       \/ PxNextRequest(c)
       \/ PxTunnel(c)
       \/ PxConnClose(c)
  \/ \E closesIdle \in BOOLEAN : PxStop(closesIdle)
  \/ PxStopped

SpecListener == InitIdle /\ [][NextListener]_vars

\* ------------------------------------------------------ loader shim (L3)
shRest == <<coreVars, sbVars, regVars, mvVars, isoVars, pxVars, dpVars,
            exVars>>

ProxyHosts == {"", "10.0.0.5", "127.0.0.1", "proxy.local"}
ProxyPorts == {0, 8080}
Ipv4 == {"127.0.0.1", "0.0.0.0", "127.0.0.2", "10.0.0.5", "93.184.216.34"}
Ipv6 == {"::1", "::", "2001:db8::1"}
DestPorts == {8080, 443}
Families == {AF_UNIX, AF_INET, AF_INET6, AF_PACKET}

\* The socket addresses a program hands to connect() and sendto().
SockAddrs ==
  {NullAddr}
    \cup {[family |-> AF_INET, ip |-> i, port |-> p] : i \in Ipv4, p \in DestPorts}
    \cup {[family |-> AF_INET6, ip |-> i, port |-> p] : i \in Ipv6, p \in DestPorts}
    \cup {[family |-> f, ip |-> "", port |-> 0] : f \in {AF_UNIX, AF_PACKET}}

\* is_allowed_destination(addr): Unix domain sockets return 1, and so does
\* the final return for every family that is neither AF_INET nor AF_INET6.
is_allowed_destination(addr, host, port) ==
  IF addr = NullAddr THEN TRUE
  ELSE IF addr.family = AF_INET
  THEN \/ addr.ip \in {"127.0.0.1", "0.0.0.0"}
       \/ host # "" /\ port > 0 /\ addr.ip = host /\ addr.port = port
  ELSE IF addr.family = AF_INET6
  THEN addr.ip \in {"::1", "::"}
  ELSE IF addr.family = AF_UNIX
  THEN TRUE
  ELSE TRUE

\* The return of the real libc function: not modelled further than that it
\* was called.
libcCall == [ret |-> 0, errno |-> NoErrno, libc |-> TRUE]
denied == [ret |-> 0 - 1, errno |-> EACCES, libc |-> FALSE]

\* dshield_init, the library constructor: initialize() reads the
\* environment once.
ShLoad(host, port) ==
  /\ ~initialized
  /\ initialized' = TRUE
  /\ proxy_host' = host
  /\ proxy_port' = port
  /\ UNCHANGED <<shRest, shCall, shOutcome>>

\* connect(sockfd, addr, addrlen)
ShConnect(addr) ==
  /\ initialized
  /\ shCall' = [fn |-> "connect", addr |-> addr]
  /\ shOutcome' = IF ~is_allowed_destination(addr, proxy_host, proxy_port)
                  THEN denied ELSE libcCall
  /\ UNCHANGED <<shRest, initialized, proxy_host, proxy_port>>

\* sendto(sockfd, buf, len, flags, dest_addr, addrlen)
ShSendto(dest_addr) ==
  /\ initialized
  /\ shCall' = [fn |-> "sendto", addr |-> dest_addr]
  /\ shOutcome' = IF /\ dest_addr # NullAddr
                     /\ ~is_allowed_destination(dest_addr, proxy_host,
                                                proxy_port)
                  THEN denied ELSE libcCall
  /\ UNCHANGED <<shRest, initialized, proxy_host, proxy_port>>

NextShim ==
  \/ \E host \in ProxyHosts, port \in ProxyPorts : ShLoad(host, port)
  \/ \E addr \in SockAddrs : ShConnect(addr)
  \/ \E addr \in SockAddrs : ShSendto(addr)

SpecShim == InitIdle /\ [][NextShim]_vars

\* --------------------------------------------- runtime: route dispatch
dpRest == <<coreVars, sbVars, regVars, mvVars, isoVars, pxVars, shVars,
            exVars>>

Methods == {"GET", "POST", "DELETE"}
\* url.pathname split at '/', empty parts dropped.
RequestPaths ==
  {<<"api", "manifests">>, <<"api", "manifests", "m1">>,
   <<"api", "manifests", "verify">>, <<"api", "manifests", "check-hash">>,
   <<"api", "manifests", "latest", "app">>,
   <<"api", "manifests", "by-hash", "h1">>,
   <<"api", "manifests", "chain", "m1">>,
   <<"api", "functions">>, <<"api", "keys", "k1">>, <<"api", "other">>,
   <<"health">>, <<"invoke", "f1">>, <<"manifests">>}
\* The Authorization header: absent, a Bearer token that is no API key, a
\* key without the route's permission, a key with it.
Auths == {"none", "invalid", "limited", "admin"}
Requests ==
  {[method |-> m, path |-> p, auth |-> a] :
     m \in Methods, p \in RequestPaths, a \in Auths}

\* ManagementApi.setupRoutes: the method and pattern of every route.
managementRoute(method, path) ==
  /\ Len(path) >= 2 /\ path[1] = "api"
  /\ \/ path[2] = "keys" /\ Len(path) = 2 /\ method \in {"POST", "GET"}
     \/ path[2] = "keys" /\ Len(path) = 3 /\ method = "DELETE"
     \/ path[2] = "functions" /\ Len(path) = 2 /\ method \in {"POST", "GET"}
     \/ path[2] = "functions" /\ Len(path) = 3
          /\ method \in {"GET", "PUT", "DELETE"}
     \/ path[2] = "secrets" /\ Len(path) = 2 /\ method \in {"POST", "GET"}
     \/ path[2] = "secrets" /\ Len(path) = 3 /\ method = "DELETE"

\* ManagementApi.handle, after the route loop: sendError(res, 404) and
\* return true.
managementUnmatched(req) ==
  [handled |-> TRUE, by |-> "management", status |-> 404]

\* ManagementApi.handle(req, res)
managementHandle(req) ==
  IF ~(Len(req.path) >= 2 /\ req.path[1] = "api")
  THEN [handled |-> FALSE, by |-> "", status |-> 0]
  ELSE IF managementRoute(req.method, req.path)
  THEN IF req.auth \in {"none", "invalid"}
       THEN [handled |-> TRUE, by |-> "management", status |-> 401]
       ELSE IF req.auth = "limited"
       THEN [handled |-> TRUE, by |-> "management", status |-> 403]
       ELSE [handled |-> TRUE, by |-> "management-route", status |-> 0]
  ELSE managementUnmatched(req)

\* ClientTransparencyApi.handle: the routes under /api/manifests.
registryRoute(method, path) ==
  /\ Len(path) >= 2 /\ path[1] = "api" /\ path[2] = "manifests"
  /\ \/ method \in {"POST", "GET"} /\ Len(path) = 2
     \/ method \in {"GET", "DELETE"} /\ Len(path) = 3
     \/ method = "POST" /\ Len(path) >= 3
          /\ path[3] \in {"verify", "check-hash"}
     \/ method = "GET" /\ Len(path) >= 4
          /\ path[3] \in {"by-hash", "latest", "chain"}

\* ClientTransparencyApi.handle(req, res).  The POST routes await
\* parseJsonBody, which listens for 'data' and 'end' on a request whose
\* body handleRequest has already read to its end: those never answer.
transparencyHandle(req) ==
  IF ~registryRoute(req.method, req.path)
  THEN [handled |-> FALSE, by |-> "", status |-> 0]
  ELSE IF req.method = "POST"
  THEN [handled |-> FALSE, by |-> "registry-pending", status |-> 0]
  ELSE [handled |-> TRUE, by |-> "registry", status |-> 0]

\* handleRequest up to the try block: the body is read to its end and the
\* request entry is logged.
DpReceive(req) ==
  /\ dpPc \in {"idle", "done"}
  /\ dpReq' = req
  /\ dpReply' = NoAnswer
  /\ dpPc' = "management"
  /\ UNCHANGED dpRest

\* const handled = await managementApi.handle(req, res)
DpManagement ==
  /\ dpPc = "management"
  /\ LET r == managementHandle(dpReq)
     IN IF r.handled
        THEN /\ dpReply' = [by |-> r.by, status |-> r.status]
             /\ dpPc' = "done"
        ELSE /\ dpPc' = "transparency"
             /\ UNCHANGED dpReply
  /\ UNCHANGED <<dpRest, dpReq>>

\* const transparencyHandled = await clientTransparencyApi.handle(req, res)
DpTransparency ==
  /\ dpPc = "transparency"
  /\ LET r == transparencyHandle(dpReq)
     IN IF r.handled
        THEN /\ dpReply' = [by |-> r.by, status |-> r.status]
             /\ dpPc' = "done"
        ELSE IF r.by = "registry-pending"
        THEN /\ dpPc' = "pending"
             /\ UNCHANGED dpReply
        ELSE /\ dpPc' = "routes"
             /\ UNCHANGED dpReply
  /\ UNCHANGED <<dpRest, dpReq>>

\* The runtime's own routes (/invoke, /health, /logs, ...) and its 404.
DpRoutes ==
  /\ dpPc = "routes"
  /\ dpReply' = [by |-> "runtime", status |-> 0]
  /\ dpPc' = "done"
  /\ UNCHANGED <<dpRest, dpReq>>

NextDispatch ==
  \/ \E req \in Requests : DpReceive(req)
  \/ DpManagement
  \/ DpTransparency
  \/ DpRoutes

SpecDispatch == InitIdle /\ [][NextDispatch]_vars

\* ================================================================= claims
Arrived == {r \in Reqs : rpc[r] # "new"}
proxyChain == entries[config["P1"]]
withoutSignature(e) == [x \in (DOMAIN e) \ {"signature"} |-> e[x]]

\* The stored egress entry of outbound request r (host identifies r).
entryIndexes(r) ==
  {i \in DOMAIN entries[config[rvia[r]]] :
     LET e == entries[config[rvia[r]]][i]
     IN e.type = "egress" /\ e.host = r /\ e.method = methodOf(rkind[r])}

\* C1: when every request that reached the proxy has been logged and no
\* store call rejected, the N requests produced exactly N entries, one per
\* request, whose sequence numbers are exactly {last+1 .. last+N}.
C1_BatchIsPermutation ==
  (queue["P1"] = <<>> /\ ~rejected["P1"]) =>
    LET n == Cardinality(Arrived)
        fresh == (initLast + 1)..Len(proxyChain)
    IN /\ Len(proxyChain) = initLast + n
       /\ {proxyChain[i].sequence : i \in fresh} = (initLast + 1)..(initLast + n)
       /\ {proxyChain[i].host : i \in fresh} = Arrived

\* C1 witness: a batch of at least two requests on top of an earlier entry,
\* all logged and none answered yet.
C1_Witness ==
  /\ initLast > 0 /\ Cardinality(Arrived) >= 2
  /\ queue["P1"] = <<>> /\ ~rejected["P1"]
  /\ \A r \in Arrived : rpc[r] = "logged"

\* C4: every request whose upstream connection was opened (plain HTTP or
\* CONNECT) already has its signed egress entry in the log store.
C4_LoggedBeforeForward ==
  \A r \in forwarded :
    \E i \in entryIndexes(r) :
      LET e == entries[config[rvia[r]]][i]
      IN e.signature = sign(withoutSignature(e))

\* C4 witness: a plain request and a tunnel have both gone upstream.
C4_Witness ==
  \E r, q \in forwarded : rkind[r] = "http" /\ rkind[q] = "connect"

\* C5: a request whose logging was rejected by the store is never forwarded.
C5_FailedAppendNotForwarded ==
  \A r \in Reqs : failure[r] # "none" => r \notin forwarded

\* C5 witness: an append was rejected and that request has been answered.
C5_Witness ==
  \E r \in Reqs : failure[r] = "append" /\ rpc[r] = "done"

\* C6 as stated: after a rejected append the plain-HTTP client receives 502.
C6_AppendFailureGives502 ==
  \A r \in Reqs :
    (failure[r] = "append" /\ rkind[r] = "http" /\ rpc[r] = "done")
      => rstatus[r] = 502

\* C6 amended: after a rejected append the plain-HTTP client receives 500.
C6_AppendFailureGives500 ==
  \A r \in Reqs :
    (failure[r] = "append" /\ rkind[r] = "http" /\ rpc[r] = "done")
      => rstatus[r] = 500

\* C6 witness: a plain-HTTP request answered after its append was rejected.
C6_Witness ==
  \E r \in Reqs :
    failure[r] = "append" /\ rkind[r] = "http" /\ rpc[r] = "done"
    /\ rstatus[r] # 0

\* C7: a plain-HTTP request whose upstream failed is answered 502, and its
\* entry is still stored at its sequence position with its signature intact.
C7_UpstreamErrorKeepsEntry ==
  \A r \in upstreamFailed :
    rkind[r] = "http" =>
      /\ rstatus[r] = 502
      /\ \E i \in entryIndexes(r) :
           LET e == entries[config[rvia[r]]][i]
           IN /\ e.sequence = i
              /\ e.path = r
              /\ e.signature = sign(withoutSignature(e))

\* C7 witness: a logged plain-HTTP request failed upstream while a later
\* entry was appended behind it.
C7_Witness ==
  \E r \in upstreamFailed :
    /\ rkind[r] = "http"
    /\ \E i \in entryIndexes(r) : i < Len(entries[config[rvia[r]]])

\* C10: every egress entry appended by a proxy carries the id established
\* by the latest setInvocationId/newInvocation call made before the append.
C10_EntriesCarryLatestId ==
  [][\A i \in (Len(proxyChain) + 1)..Len(entries'[config["P1"]]) :
       entries'[config["P1"]][i].invocationId = lastCallId["P1"]]_vars

\* C10 witness: entries logged under two different established ids.
C10_Witness ==
  \E i, j \in DOMAIN proxyChain :
    /\ i < j
    /\ proxyChain[i].invocationId \in CustomIds
    /\ proxyChain[j].invocationId \in 1..MaxUuids

\* C2 as stated: two components that append under the same functionId are
\* never inside the critical section together, and no two entries of one
\* functionId get the same sequence number.
C2_SerializedPerFunctionId ==
  /\ \A c, d \in Components :
       (c # d /\ config[c] # NoFid /\ config[c] = config[d])
         => ~(phase[c] = "read" /\ phase[d] = "read")
  /\ \A r, q \in Reqs :
       (r # q /\ rseq[r] # 0 /\ rseq[q] # 0
        /\ config[rvia[r]] = config[rvia[q]]) => rseq[r] # rseq[q]

\* C3: for each functionId the stored sequence values are exactly {1..N},
\* without duplicates, also after store calls or upstreams have failed.
C3_SequencesContiguous ==
  \A f \in FunctionIds :
    /\ {entries[f][i].sequence : i \in DOMAIN entries[f]} = 1..Len(entries[f])
    /\ \A i, j \in DOMAIN entries[f] :
         i # j => entries[f][i].sequence # entries[f][j].sequence

\* C3 witness: a chain holds several entries after a store call was
\* rejected and an upstream failed.
C3_Witness ==
  /\ Len(entries[TestFunctionId]) >= 2
  /\ failures > 0
  /\ upstreamFailed # {}

\* C8 as stated: every egress entry carries the invocationId of the
\* invocation whose child sent the request.
C8_EgressCarriesOwnInvocation ==
  \A i \in DOMAIN entries[RuntimeProxyFunctionId] :
    LET e == entries[RuntimeProxyFunctionId][i]
    IN e.invocationId = invId[rowner[e.host]]

\* C9 as stated: within one functionId chain, timestamps do not decrease as the
\* sequence number grows.
C9_TimestampsMonotonic ==
  \A f \in FunctionIds : \A i, j \in DOMAIN entries[f] :
    entries[f][i].sequence < entries[f][j].sequence
      => entries[f][i].timestamp <= entries[f][j].timestamp

\* C11: an append under one functionId leaves the entries and the latest
\* sequence of every other functionId as they were, so the egress chain and
\* the server chain number their entries independently.
C11_ChainsIndependent ==
  [][\A f \in FunctionIds :
       entries'[f] # entries[f] =>
         \A g \in FunctionIds \ {f} :
           /\ entries'[g] = entries[g]
           /\ sequences'[g] = sequences[g]
           /\ getLatestSequence(g)' = getLatestSequence(g)]_vars

\* C11 witness: the server chain and the egress chain both hold entries and
\* both number them from 1.
C11_Witness ==
  /\ Len(entries[SERVER_FUNCTION_ID]) >= 2
  /\ Len(entries[RuntimeProxyFunctionId]) >= 1
  /\ entries[SERVER_FUNCTION_ID][1].sequence = 1
  /\ entries[RuntimeProxyFunctionId][1].sequence = 1

\* The entries of the server chain that belong to invocation i.
auditIndexes(i, type) ==
  {k \in DOMAIN entries[SERVER_FUNCTION_ID] :
     LET e == entries[SERVER_FUNCTION_ID][k]
     IN e.type = type /\ e.invocationId = invId[i]}

\* C12 as stated: every handled request has its request entry before user
\* code runs, and once its response is sent the server chain holds exactly
\* one request entry and one later response entry for it.
C12_TwoEntriesPerRequest ==
  \A i \in Invs :
    /\ ipc[i] \in {"exec", "logRes", "send", "done"}
         => Cardinality(auditIndexes(i, "request")) = 1
    /\ ipc[i] = "done"
         => /\ Cardinality(auditIndexes(i, "response")) = 1
            /\ \A a \in auditIndexes(i, "request") :
                 \A b \in auditIndexes(i, "response") : a < b

\* C13: every response entry of the server chain points back, through
\* requestSeq, to a request entry of the same chain with the same
\* invocationId and a smaller sequence.
C13_RequestSeqBackReference ==
  \A k \in DOMAIN entries[SERVER_FUNCTION_ID] :
    LET r == entries[SERVER_FUNCTION_ID][k]
    IN r.type = "response" =>
         \E j \in DOMAIN entries[SERVER_FUNCTION_ID] :
           LET q == entries[SERVER_FUNCTION_ID][j]
           IN /\ q.type = "request"
              /\ q.sequence = r.requestSeq
              /\ q.invocationId = r.invocationId
              /\ q.sequence < r.sequence

\* C13 witness: two requests handled at once; the second one's response is
\* logged before the first one's.
C13_Witness ==
  /\ Len(entries[SERVER_FUNCTION_ID]) = 4
  /\ entries[SERVER_FUNCTION_ID][3].type = "response"
  /\ entries[SERVER_FUNCTION_ID][3].requestSeq = 2
  /\ entries[SERVER_FUNCTION_ID][4].type = "response"
  /\ entries[SERVER_FUNCTION_ID][4].requestSeq = 1

\* The verifier has returned.
Verified == vResult # NotCalled

\* Entry e carries the signature of the holder of key k over e without its
\* signature field.
signedBy(e, k) ==
  /\ e.signature.key = k
  /\ e.signature.data = [x \in (DOMAIN e) \ {"signature"} |-> e[x]]

\* C14: valid is true exactly when the input is empty, or its sequences are
\* exactly 1..N and every entry's signature verifies under the given key.
C14_ValidIffContiguousAndSigned ==
  Verified =>
    (vResult.valid <=>
       \/ vEntries = <<>>
       \/ /\ {vEntries[i].sequence : i \in DOMAIN vEntries} = 1..Len(vEntries)
          /\ \A i \in DOMAIN vEntries : signedBy(vEntries[i], vKey))

\* C14 witness: a full-length input was accepted, and it was not handed over
\* in ascending order.
C14_Witness ==
  /\ Verified /\ vResult.valid
  /\ Len(vEntries) = MaxEntries
  /\ vEntries[Len(vEntries)].sequence = 1

\* The positions of the errors of one kind in the returned array.
errorsOfKind(kind) ==
  {j \in DOMAIN vResult.errors : vResult.errors[j].kind = kind}

\* C15: the errors hold a sequence error for every sorted position whose
\* entry has another sequence than the position, and exactly one signature
\* error per entry whose signature fails, none for the other entries.
C15_AllErrorsReported ==
  Verified =>
    LET sorted == sortBySequence(vEntries)
    IN /\ \A i \in DOMAIN sorted :
            sorted[i].sequence # i =>
              \E j \in errorsOfKind("gap") :
                /\ vResult.errors[j].expected = i
                /\ vResult.errors[j].got = sorted[i].sequence
       /\ \A i \in DOMAIN sorted :
            (\E j \in errorsOfKind("signature") :
               vResult.errors[j].expected = i)
              <=> ~signedBy(sorted[i], vKey)
       /\ Cardinality(errorsOfKind("signature"))
            = Cardinality({i \in DOMAIN sorted : ~signedBy(sorted[i], vKey)})

\* C15 witness: several problems in one input: a gap on an entry whose
\* signature is good, and a bad signature on another entry.
C15_Witness ==
  /\ Verified
  /\ Len(vResult.errors) >= 3
  /\ errorsOfKind("signature") # {}
  /\ \E j \in errorsOfKind("gap") :
       \A k \in errorsOfKind("signature") :
         vResult.errors[k].expected # vResult.errors[j].expected

\* The input array reordered by the permutation f of its positions.
reordered(f) == [i \in DOMAIN vEntries |-> vEntries[f[i]]]

\* C16: the valid flag is the same for every ordering of the input.
C16_ValidIgnoresOrder ==
  Verified =>
    \A f \in Permutations(DOMAIN vEntries) :
      verifyLogIntegrity(reordered(f), vKey).valid = vResult.valid

\* C16 witness: an input given in descending order was accepted.
C16_Witness ==
  /\ Verified /\ vResult.valid
  /\ Len(vEntries) >= 2
  /\ \A i \in 1..(Len(vEntries) - 1) :
       vEntries[i].sequence > vEntries[i + 1].sequence

keptUnchanged(f, e) ==
  \E j \in DOMAIN entries'[f] : entries'[f][j] = e

\* C18 as stated, for the in-memory store: whatever a caller of the store
\* does next (append, write to an object it appended, change the array it
\* got from getAll), every entry that getAll returns now is returned
\* unchanged afterwards.
C18_StoredEntriesImmutable ==
  [][backend = "memory" =>
       \A f \in FunctionIds : \A i \in DOMAIN getAll(f) :
         keptUnchanged(f, getAll(f)[i])]_vars

\* C19 as stated: an append to the durable store leaves every entry stored
\* before it in place, also one with the same functionId and sequence.
C19_DurableAppendKeepsEntries ==
  [][(backend = "durable" /\ entries' # entries) =>
       \A f \in FunctionIds : \A i \in DOMAIN entries[f] :
         \E j \in DOMAIN entries'[f] : entries'[f][j] = entries[f][i]]_vars

\* C20 as stated: for either store and any appends made, getAll returns the
\* entries of a function in ascending sequence order, and the empty list for
\* a function without entries.
C20_GetAllAscending ==
  \A f \in FunctionIds :
    \A i, j \in DOMAIN getAll(f) :
      i < j => getAll(f)[i].sequence <= getAll(f)[j].sequence

\* C21: a child does not run past the timeout of its function; a child the
\* timer found running is killed and execute returns a failure whose error
\* is the timeout.
C21_TimeoutKills ==
  /\ sbChild = "running" => sbNow <= timeoutOf(sbConfig)
  /\ sbChild = "killed" =>
       /\ sbNow >= timeoutOf(sbConfig)
       /\ sbPromise = [state |-> "rejected", kind |-> "timeout", text |-> 0]
  /\ (sbChild = "killed" /\ sbpc = "returned") =>
       /\ sbResult.outcome = "returned"
       /\ ~sbResult.success
       /\ sbResult.error.kind = "timeout"

\* C21 witness: a configured timeout expired on a running child, execute
\* has returned and time has moved on.
C21_Witness ==
  /\ sbConfig.timeout > 0
  /\ sbChild = "killed" /\ sbpc = "returned"
  /\ sbNow > sbConfig.timeout

\* C22: execute returns success exactly when the child closed with code 0
\* before the timer fired and its output parsed; a non-zero code gives a
\* failure carrying the stderr text, code 0 with output that does not parse
\* gives the invalid-response failure.
C22_SuccessIffCleanExit ==
  sbpc = "returned" =>
    /\ sbResult.success <=>
         (sbChild = "closed" /\ sbClose.code = 0 /\ sbClose.parses)
    /\ (sbChild = "closed" /\ sbClose.code # 0) =>
         /\ ~sbResult.success
         /\ sbResult.error.kind = "exit"
         /\ sbResult.error.text = sbClose.stderr
    /\ (sbChild = "closed" /\ sbClose.code = 0 /\ ~sbClose.parses) =>
         /\ ~sbResult.success
         /\ sbResult.error.kind = "invalid"

\* C22 witness: a child closed cleanly at the very instant its timeout was
\* due, and execute returned success.
C22_Witness ==
  /\ sbpc = "returned" /\ sbResult.success
  /\ sbResult.durationMs = timeoutOf(sbConfig)

SandboxFailures == {"unsupported", "spawn", "exit", "timeout", "invalid"}

C24_RejectedRegisterChangesNothing ==
  [][regReply'.op = "register" =>
       /\ regReply'.status \in {201, 400}
       /\ regReply'.status = 400 =>
            /\ ~regReply'.success
            /\ regReply'.reason # <<>>
            /\ UNCHANGED <<manifests, latestByName, byBundleHash, chainLinks>>
       /\ regReply'.status = 201 =>
            LET id == regReply'.entry.manifestId
                held == manifests'[id]
            IN /\ manifests[id] = NoManifest
               /\ held # NoManifest
               /\ held.signature = signatureOf(held.publicKey, held.manifest)
    ]_vars

\* C24 witness: with a manifest held and indexed, a second registration
\* under its id was refused.
C24_Witness ==
  /\ regReply.op = "register" /\ regReply.status = 400
  /\ \E id \in ManifestIds :
       /\ regReply.reason = <<"already registered", id>>
       /\ manifests[id] # NoManifest
       /\ latestByName[manifests[id].manifest.name] = id
       /\ byBundleHash[manifests[id].manifest.bundleHash] = id

\* C25 as stated: a check with a non-empty trusted list answers trusted
\* only when the manifest under that bundle hash was signed by a key whose
\* fingerprint is in the list.
C25_TrustedOnlyIfSignedByListedKey ==
  (/\ regReply.op = "check" /\ regReply.status # 400
   /\ regReply.trustedFingerprints # {}
   /\ regReply.result.trusted)
    => computeKeyFingerprint(regReply.result.manifest.signature.by)
         \in regReply.trustedFingerprints

\* C26 as stated: every manifest the registry holds carries the fingerprint
\* of its own public key.
C26_StoredFingerprintMatchesKey ==
  \A id \in ManifestIds :
    manifests[id] # NoManifest =>
      manifests[id].keyFingerprint
        = computeKeyFingerprint(manifests[id].publicKey)

\* C27: verifyClientManifest answers valid exactly when the signature was
\* made over the manifest by the trusted key if one is given, else by the
\* embedded key; the bundle hash recomputed from files is the stored one;
\* every listed file whose content is supplied hashes to its stored hash;
\* and the fingerprint of publicKey is keyFingerprint.
C27_ValidIffAllChecksPass ==
  mvpc = "verified" =>
    LET sm == mvInput.signedManifest
        fc == mvInput.fileContents
        key == IF mvInput.trustedPublicKey # NoKey
               THEN mvInput.trustedPublicKey ELSE sm.publicKey
        files == sm.manifest.files
    IN mvResult.valid <=>
         /\ sm.signature = signatureOf(key, sm.manifest)
         /\ sm.manifest.bundleHash = computeBundleHash(files)
         /\ fc.supplied =>
              \A i \in DOMAIN files :
                fc.content[files[i].path] # NoContent =>
                  sha256(fc.content[files[i].path]) = files[i].hash
         /\ sha256(sm.publicKey) = sm.keyFingerprint

\* C27 witness: a manifest of two files listed out of path order, checked
\* against a trusted key with one file's content supplied, found valid.
C27_Witness ==
  /\ mvpc = "verified" /\ mvResult.valid
  /\ mvInput.trustedPublicKey # NoKey
  /\ Len(mvInput.signedManifest.manifest.files) = 2
  /\ mvInput.signedManifest.manifest.files[1].path
       > mvInput.signedManifest.manifest.files[2].path
  /\ \E p, q \in Paths :
       /\ mvInput.fileContents.content[p] # NoContent
       /\ mvInput.fileContents.content[q] = NoContent
  /\ mvInput.fileContents.supplied

\* C28: the level is `full` exactly when the three layers are available,
\* `partial` exactly when not all three are but the namespace or the loader
\* shim is, `minimal` otherwise; for the report of every environment and for
\* every combination of the three flags.
C28_LevelMatchesLayers ==
  /\ \A l2 \in BOOLEAN, l3 \in BOOLEAN, l4 \in BOOLEAN :
       LET level == isolationLevel(l2, l3, l4)
       IN /\ level = "full" <=> (l2 /\ l3 /\ l4)
          /\ level = "partial" <=> (~(l2 /\ l3 /\ l4) /\ (l2 \/ l3))
          /\ level = "minimal" <=> ~(l2 \/ l3)
  /\ isoCaps # NoCapabilities =>
       LET l2 == isoCaps.networkNamespace
           l3 == isoCaps.ldPreload
           l4 == isoCaps.seccomp
           level == isoCaps.isolationLevel
       IN /\ level = "full" <=> (l2 /\ l3 /\ l4)
          /\ level = "partial" <=> (~(l2 /\ l3 /\ l4) /\ (l2 \/ l3))
          /\ level = "minimal" <=> ~(l2 \/ l3)

\* C28 witness: a Linux host with the namespace tool but without the
\* syscall filter was reported.
C28_Witness ==
  /\ isoCaps.platform = "linux"
  /\ isoCaps.networkNamespace /\ ~isoCaps.seccomp
  /\ isoCaps.isolationLevel = "partial"

\* C30 as stated: a call that a rule of the installed profile applies to
\* returns EPERM under strict, is logged and let through under logging, and
\* kills the process under paranoid.
C30_ViolationActionPerProfile ==
  isoVerdict.matched =>
    /\ isoProfile.name = "strict" =>
         isoVerdict.action = "SCMP_ACT_ERRNO" /\ isoVerdict.errnoRet = EPERM
    /\ isoProfile.name = "logging" => isoVerdict.action = "SCMP_ACT_LOG"
    /\ isoProfile.name = "paranoid" =>
         isoVerdict.action = "SCMP_ACT_KILL_PROCESS"

\* C30 amended: under strict a blocked syscall returns EPERM and a socket of
\* a blocked family returns EACCES; under logging the call is logged and let
\* through; under paranoid a blocked syscall kills the process and a socket
\* of a blocked family returns EACCES.
C30_ViolationActionPerRule ==
  isoVerdict.matched =>
    /\ isoProfile.name = "strict" =>
         /\ isoVerdict.action = "SCMP_ACT_ERRNO"
         /\ isoVerdict.errnoRet
              = IF isoVerdict.name = "socket" THEN EACCES ELSE EPERM
    /\ isoProfile.name = "logging" => isoVerdict.action = "SCMP_ACT_LOG"
    /\ isoProfile.name = "paranoid" =>
         IF isoVerdict.name = "socket"
         THEN isoVerdict.action = "SCMP_ACT_ERRNO"
              /\ isoVerdict.errnoRet = EACCES
         ELSE isoVerdict.action = "SCMP_ACT_KILL_PROCESS"

\* C30 witness: under paranoid an IPv4 socket was refused.
C30_Witness ==
  /\ isoProfile.name = "paranoid"
  /\ isoVerdict.matched
  /\ isoVerdict.name = "socket" /\ isoVerdict.arg0 = AF_INET

\* C29: stop() ends no connection that has a request or a tunnel in
\* progress, and it has completed only when the listener is closed and no
\* connection is open.
C29_StopDrainsConnections ==
  /\ \A c \in Conns : pxClosedBy[c] = "server" => pxLast[c] \notin InFlight
  /\ pxStop = "resolved" =>
       /\ ~pxListening
       /\ \A c \in Conns : pxConn[c] \notin Open

\* C29 witness: stop() completed after a tunnel and a plain request that
\* were in progress when it was called had ended by themselves.
C29_Witness ==
  /\ pxStop = "resolved"
  /\ \E c, d \in Conns :
       /\ pxClosedBy[c] = "peer-late" /\ pxLast[c] = "tunnel"
       /\ pxClosedBy[d] = "peer-late" /\ pxLast[d] = "active"

\* Destinations on the local host: the loopback addresses 127.0.0.0/8 and
\* ::1, the unspecified addresses (which the kernel delivers to the local
\* host) and Unix domain sockets.
isLocalDestination(addr) ==
  \/ addr.family = AF_INET /\ addr.ip \in {"127.0.0.1", "127.0.0.2", "0.0.0.0"}
  \/ addr.family = AF_INET6 /\ addr.ip \in {"::1", "::"}
  \/ addr.family = AF_UNIX

isProxyDestination(addr) ==
  /\ proxy_host # "" /\ proxy_port > 0
  /\ addr.ip = proxy_host /\ addr.port = proxy_port

\* C31: with the shim loaded, a connect() or sendto() whose destination is
\* neither on the local host nor the configured proxy host:port fails with
\* EACCES and the real libc function is not called.
C31_OutsideDestinationDenied ==
  (/\ shCall.fn \in {"connect", "sendto"}
   /\ shCall.addr # NullAddr
   /\ ~isLocalDestination(shCall.addr)
   /\ ~isProxyDestination(shCall.addr))
    => (shOutcome.ret = 0 - 1 /\ shOutcome.errno = EACCES /\ ~shOutcome.libc)

\* C32: a store failure is fatal only to the request being logged: every
\* request whose logRequest has settled, and whose own getLatestSequence
\* and append did not reject, was logged with a sequence number (and may be
\* forwarded); it was not failed by an earlier request's store failure.
C32_LaterRequestsStillLogged ==
  \A r \in Reqs :
    (/\ rpc[r] \notin {"new", "logging"}
     /\ failure[r] \notin {"getLatestSequence", "append"})
      => (failure[r] = "none" /\ rseq[r] >= 1)

isRegistered(manifestId) == manifests[manifestId] # NoManifest

\* C33: in every registry state reached by register and delete calls the
\* previous-manifest links contain no cycle: getManifestChain(id) ends for
\* every id.
C33_ChainTerminates ==
  \A id \in ManifestIds : getManifestChainTerminates(id)

\* C34: the latest-by-name index, the by-bundle-hash index and the chain
\* links name only manifests that are registered, and the latest of a name
\* is a manifest of that name.
C34_IndexesNameRegisteredManifests ==
  /\ \A n \in Names :
       latestByName[n] # NoId =>
         /\ isRegistered(latestByName[n])
         /\ manifests[latestByName[n]].manifest.name = n
  /\ \A h \in BundleHashes :
       byBundleHash[h] # NoId => isRegistered(byBundleHash[h])
  /\ \A id \in ManifestIds :
       chainLinks[id] # NoId =>
         isRegistered(id) /\ isRegistered(chainLinks[id])

\* C35: getByBundleHash(h) finds a manifest whenever some registered
\* manifest has bundle hash h.
C35_RegisteredHashIsFound ==
  \A h \in BundleHashes :
    (\E id \in ManifestIds :
       isRegistered(id) /\ manifests[id].manifest.bundleHash = h)
      => getByBundleHash(h) # NoManifest

\* C36: a Manifest Registry request that the runtime's HTTP server has
\* finished handling was answered by the registry handler.
C36_RegistryRequestsReachRegistry ==
  (dpPc = "done" /\ registryRoute(dpReq.method, dpReq.path))
    => dpReply.by = "registry"

\* C37: over the durable store getLatestSequence(f) returns what the
\* uncached query returns: the highest sequence stored for f, 0 when none.
C37_CacheAgreesWithQuery ==
  backend = "durable" =>
    \A f \in FunctionIds : getLatestSequence(f) = queryLatest(f)

\* The manifests that differ from `manifest` in the value of one field: the
\* file list (a file's path or hash, or the files listed), the bundle
\* hash, the name or the id.
changedManifests(manifest) ==
  ({[manifest EXCEPT !.files = files] : files \in FileLists}
     \cup {[manifest EXCEPT !.bundleHash = h] :
              h \in {StaleBundleHash, computeBundleHash(manifest.files)}}
     \cup {[manifest EXCEPT !.name = n] : n \in {"app", "other"}}
     \cup {[manifest EXCEPT !.manifestId = id] : id \in {1, 2}})
    \ {manifest}

\* C38: for a validly signed manifest, changing the value of any manifest
\* field, top-level or nested, makes verifyManifestSignature return false.
C38_AnyChangeBreaksSignature ==
  LET sm == mvInput.signedManifest
  IN (mvpc # "idle" /\ verifyManifestSignature(sm, NoKey)) =>
       \A changed \in changedManifests(sm.manifest) :
         ~verifyManifestSignature([sm EXCEPT !.manifest = changed], NoKey)

\* C39: every egress entry carries the invocationId that sandbox.execute
\* gave the child that sent the request (and returned in its result).
C39_EgressCarriesSandboxInvocationId ==
  \A k \in DOMAIN entries[RuntimeProxyFunctionId] :
    LET e == entries[RuntimeProxyFunctionId][k]
    IN e.invocationId = execInvocationId[rowner[e.host]]

\* C40: an execute call settles once: the first of timeout, close and spawn
\* error fixes the outcome and no later event changes it or the result
\* execute returned; when a close or spawn error has been handled the timer
\* is cancelled, and a child that has closed is not killed afterwards.
C40_SettlesExactlyOnce ==
  [][/\ sbPromise.state # "pending" => sbPromise' = sbPromise
     /\ sbpc = "returned" => sbResult' = sbResult
     /\ (sbClose' # NoClose \/ sbChild' \in {"closed", "failed"}) => ~sbTimer'
     /\ sbChild = "closed" => sbChild' = "closed"]_vars

\* C40 witness: the timer fired first and execute returned the timeout; the
\* close event of the killed child was handled afterwards.
C40_Witness ==
  /\ sbChild = "killed" /\ sbClose # NoClose
  /\ sbpc = "returned" /\ sbResult.error.kind = "timeout"
====
